---- MODULE Spec2Model ----
(***************************************************************************)
(* Model of the virtual-document synthesis and position-mapping engine of  *)
(* the Astro language tools: the frontmatter scan, astro2tsx with its      *)
(* mapping reconstruction (getVirtualFileTSX), and the AstroFile snapshot  *)
(* that re-derives every artifact on update.                               *)
(*                                                                         *)
(* Texts are sequences of one-character strings; an offset is a number of  *)
(* UTF-16 units, as in the source.  NL is the line feed.  The character    *)
(* "$" stands for the literal `__AstroComponent_` the compiler emits, "-"  *)
(* for one dash of the frontmatter delimiter.                              *)
(***************************************************************************)
EXTENDS Integers, Sequences, FiniteSets, TLC

NL == "\n"

\* ------------------------------------------------------------------ bounds
MaxInput == 2
MaxCode == 2
MaxSegments == 3
MaxText == 7
MaxSnapshot == 6
MaxUpdates == 2

\* The line and character numbers the segments of a table use, for the
\* generated and for the source position alike.
SegmentLines == {0, 1}
SegmentCharacters == {0, 1}

\* ----------------------------------------------------------- text helpers
Min(a, b) == IF a < b THEN a ELSE b
Max(a, b) == IF a > b THEN a ELSE b

\* All texts over an alphabet, up to a length.
TextsOver(alphabet, n) == UNION {[1..k -> alphabet] : k \in 0..n}

\* String.prototype.substring(start, end) on 0-based offsets, end exclusive;
\* both arguments are clamped to [0, length] and swapped when start > end,
\* as JavaScript does.
substring(text, start, end) ==
    LET s == Max(0, Min(start, Len(text)))
        e == Max(0, Min(end, Len(text)))
    IN  IF s = e THEN <<>> ELSE SubSeq(text, Min(s, e) + 1, Max(s, e))

\* text[i] of JavaScript: the unit at 0-based offset i, or "undefined".
charAt(text, i) == IF i >= 0 /\ i < Len(text) THEN text[i + 1] ELSE "undefined"

\* ------------------------------------------------- TextDocument (library)
\* computeLineOffsets: offset 0, and the offset after every line break.
lineOffsetsOf(text) ==
    LET breaks == {i \in 1..Len(text) : text[i] = NL}
        RECURSIVE build(_, _)
        build(from, acc) ==
            IF \E i \in breaks : i >= from
            THEN LET i == CHOOSE j \in breaks : j >= from /\ \A k \in breaks : k >= from => j <= k
                 IN  build(i + 1, Append(acc, i))
            ELSE acc
    IN  build(1, <<0>>)

\* TextDocument.offsetAt({line, character}): clamps the line to the document
\* and the character to the line.
docOffsetAt(text, line, character) ==
    LET lo == lineOffsetsOf(text)
    IN  IF line >= Len(lo) THEN Len(text)
        ELSE IF line < 0 THEN 0
        ELSE LET lineOffset == lo[line + 1]
                 nextLineOffset == IF line + 1 < Len(lo) THEN lo[line + 2] ELSE Len(text)
             IN  Max(Min(lineOffset + character, nextLineOffset), lineOffset)

\* ------------------------------------------------------------- astro2tsx
\* File names matter to patchTSX only through their base name: a dynamic
\* route ([id].astro), 404.astro, or any other name.
FileKinds == {"plain", "dynamic", "404"}

FourOhFour == <<"F", "o", "u", "r", "O", "h", "F", "o", "u", "r">>

\* String.prototype.toUpperCase on one unit ("$" begins with "_": unchanged).
toUpperCase(c) == IF c = "a" THEN "A" ELSE IF c = "b" THEN "B" ELSE c

\* The replacer of patchTSX for one match whose capture group is m1.
patchReplacement(m1, kind) ==
    IF Len(m1) = 0
    THEN IF kind = "404" THEN FourOhFour ELSE <<"$">>
    ELSE IF kind = "dynamic"
         THEN <<"_">> \o m1 \o <<"_">>
         ELSE <<toUpperCase(m1[1])>> \o Tail(m1)

\* patchTSX: code.replace(/\b(\S*)__AstroComponent_/gm, replacer).  A match
\* starts at the beginning of a run of non-space units that holds a marker
\* and, \S* being greedy, runs to the last marker of that run; the rest of
\* the run is left alone (no word boundary follows the marker).
patchTSX(code, kind) ==
    LET RECURSIVE go(_, _)
        go(i, acc) ==
            IF i > Len(code) THEN acc
            ELSE IF code[i] = NL THEN go(i + 1, Append(acc, NL))
            ELSE LET e == CHOOSE j \in i..Len(code) :
                              /\ \A k \in i..j : code[k] # NL
                              /\ (j = Len(code) \/ code[j + 1] = NL)
                     markers == {p \in i..e : code[p] = "$"}
                 IN  IF markers = {}
                     THEN go(e + 1, acc \o SubSeq(code, i, e))
                     ELSE LET p == CHOOSE q \in markers : \A r \in markers : r <= q
                          IN  go(e + 1, acc \o patchReplacement(SubSeq(code, i, p - 1), kind)
                                            \o SubSeq(code, p + 1, e))
    IN  go(1, <<>>)

\* Mutant: the end of the generated range taken as inclusive.
NewMapping_InclusiveEnd(sourceStart, sourceEnd, genStart, genEnd) ==
    [sourceRange |-> <<sourceStart, sourceEnd>>,
     generatedRange |-> <<genStart, genEnd + 1>>,
     data |-> {}]

\* A mapping entry as pushed by getVirtualFileTSX: data is the object {}.
\* An object is modelled as the set of its <<key, value>> pairs.
NewMapping(sourceStart, sourceEnd, genStart, genEnd) ==
    [sourceRange |-> <<sourceStart, sourceEnd>>,
     generatedRange |-> <<genStart, genEnd>>,
     data |-> {}]

NoCurrent == [defined |-> FALSE, genOffset |-> 0, sourceOffset |-> 0]

\* The flattened iteration order of the two nested loops over v3Mappings:
\* pairs <<genLine, segment>>, lines ascending, segments in line order.
flattenSegments(v3Mappings) ==
    LET RECURSIVE flat(_)
        flat(l) ==
            IF l > Len(v3Mappings) THEN <<>>
            ELSE [k \in 1..Len(v3Mappings[l]) |-> <<l - 1, v3Mappings[l][k]>>] \o flat(l + 1)
    IN  flat(1)

\* Mutant: the span between two segments mapped whole, texts not compared.
matchedLength_NoShrink(input, code, current, genOffset) ==
    genOffset - current.genOffset

\* The length the loop body maps for the pending segment `current` when the
\* next segment starts at genOffset: the whole span if source and generated
\* text agree on it, else their longest common prefix.
matchedLength(input, code, current, genOffset) ==
    LET length == genOffset - current.genOffset
        sourceText == substring(input, current.sourceOffset, current.sourceOffset + length)
        genText == substring(code, current.genOffset, current.genOffset + length)
        RECURSIVE prefix(_, _)
        prefix(i, len) ==
            IF i < genOffset - current.genOffset /\ charAt(sourceText, i) = charAt(genText, i)
            THEN prefix(i + 1, i + 1)
            ELSE len
    IN  IF sourceText # genText THEN prefix(0, 0) ELSE length

\* Mutant: a merge that extends the generated range only.
pushOrMerge_GenOnly(mappings, current, length) ==
    IF length > 0
    THEN IF /\ Len(mappings) > 0
            /\ mappings[Len(mappings)].generatedRange[2] = current.genOffset
            /\ mappings[Len(mappings)].sourceRange[2] = current.sourceOffset
         THEN [mappings EXCEPT
                  ![Len(mappings)].generatedRange[2] = current.genOffset + length]
         ELSE Append(mappings, [sourceRange |-> <<current.sourceOffset, current.sourceOffset + length>>,
                                generatedRange |-> <<current.genOffset, current.genOffset + length>>,
                                data |-> {}])
    ELSE mappings

\* Push a new entry, or extend the last one when it ends exactly where the
\* pending segment starts, in both the generated and the source text.
pushOrMerge(mappings, current, length) ==
    IF length > 0
    THEN IF /\ Len(mappings) > 0
            /\ mappings[Len(mappings)].generatedRange[2] = current.genOffset
            /\ mappings[Len(mappings)].sourceRange[2] = current.sourceOffset
         THEN [mappings EXCEPT
                  ![Len(mappings)].generatedRange[2] = current.genOffset + length,
                  ![Len(mappings)].sourceRange[2] = current.sourceOffset + length]
         ELSE Append(mappings, NewMapping(current.sourceOffset, current.sourceOffset + length,
                                          current.genOffset, current.genOffset + length))
    ELSE mappings

\* The loops of getVirtualFileTSX over the decoded table: the list of entries
\* they leave in `mappings`.
tableMappings(input, code, v3Mappings) ==
    LET segs == flattenSegments(v3Mappings)
        RECURSIVE loop(_, _, _)
        loop(k, current, mappings) ==
            IF k > Len(segs) THEN mappings
            ELSE LET genLine == segs[k][1]
                     segment == segs[k][2]
                     genOffset == docOffsetAt(code, genLine, segment[1])
                     closed == IF current.defined
                               THEN pushOrMerge(mappings, current,
                                                matchedLength(input, code, current, genOffset))
                               ELSE mappings
                     next == IF Len(segment) >= 4
                             THEN [defined |-> TRUE, genOffset |-> genOffset,
                                   sourceOffset |-> docOffsetAt(input, segment[3], segment[4])]
                             ELSE NoCurrent
                 IN  loop(k + 1, next, closed)
    IN  loop(1, NoCurrent, <<>>)

\* ts.createSourceFile(...).statements[0].getStart(ast): the offset of the
\* first unit that is not trivia; -1 stands for "no statement".  Of the
\* units of the model only the line feed is trivia.
firstStatementStart(code) ==
    IF \E i \in 1..Len(code) : code[i] # NL
    THEN (CHOOSE i \in 1..Len(code) : code[i] # NL /\ \A j \in 1..(i - 1) : code[j] = NL) - 1
    ELSE -1

\* Mutant: the whole-document entry tied to offset 0 of the generated code.
pushWholeDocument_AtZero(mappings, input, code) ==
    IF firstStatementStart(code) >= 0
    THEN Append(mappings, [sourceRange |-> <<0, Len(input)>>,
                           generatedRange |-> <<0, Len(code)>>, data |-> {}])
    ELSE mappings

\* mappings.push({sourceRange: [0, input.length], generatedRange: [start of
\* the first statement, code.length], data: {}}) when there is a statement.
pushWholeDocument(mappings, input, code) ==
    IF firstStatementStart(code) >= 0
    THEN Append(mappings, NewMapping(0, Len(input), firstStatementStart(code), Len(code)))
    ELSE mappings

\* mappings.forEach(mapping => mapping.data.formattingEdits = false)
disableFormatting(mappings) ==
    [i \in 1..Len(mappings) |->
        [mappings[i] EXCEPT !.data =
            {kv \in mappings[i].data : kv[1] # "formattingEdits"} \cup {<<"formattingEdits", FALSE>>}]]

\* Mutant: formatting disabled before the whole-document entry is pushed.
getVirtualFileTSX_FormatFirst(input, tsx, kind) ==
    LET code == patchTSX(tsx.code, kind)
        looped == disableFormatting(tableMappings(input, code, tsx.mappings))
    IN  [languageId |-> "typescriptreact",
         code |-> code,
         mappings |-> pushWholeDocument(looped, input, code),
         embeddedFiles |-> <<>>]

\* getVirtualFileTSX: the virtual file built from the compiler's result.
getVirtualFileTSX(input, tsx, kind) ==
    LET code == patchTSX(tsx.code, kind)
        looped == tableMappings(input, code, tsx.mappings)
        withDocument == pushWholeDocument(looped, input, code)
    IN  [languageId |-> "typescriptreact",
         code |-> code,
         mappings |-> disableFormatting(withDocument),
         embeddedFiles |-> <<>>]

\* The diagnostic safeConvertToTSX makes up when the compiler throws.
unknownErrorDiagnostic(content) ==
    [code |-> 1000, severity |-> 1,
     location |-> [line |-> 1, column |-> 1, length |-> Len(content)]]

\* Mutant: no try/catch around the compiler call.
safeConvertToTSX_NoCatch(content, outcome) ==
    [threw |-> outcome.throws, code |-> outcome.code, mappings |-> outcome.mappings,
     diagnostics |-> outcome.diagnostics]

\* An exception is modelled as a result whose field `threw` is TRUE; a
\* caller that does not catch it hands it on.
\* safeConvertToTSX: the compiler's result, or the empty fallback result when
\* the compiler throws.  `outcome` is what convertToTSX does for `content`;
\* decode('') of the fallback's mappings is a table of one empty line.
safeConvertToTSX(content, outcome) ==
    IF outcome.throws
    THEN [threw |-> FALSE, code |-> <<>>, mappings |-> << <<>> >>,
          diagnostics |-> <<unknownErrorDiagnostic(content)>>]
    ELSE [threw |-> FALSE, code |-> outcome.code, mappings |-> outcome.mappings,
          diagnostics |-> outcome.diagnostics]

NoVirtualFile == [languageId |-> "none", code |-> <<>>, mappings |-> <<>>,
                  embeddedFiles |-> <<>>]

\* astro2tsx(input, fileName, ts)
astro2tsx(input, kind, outcome) ==
    LET tsx == safeConvertToTSX(input, outcome)
    IN  IF tsx.threw
        THEN [threw |-> TRUE, virtualFile |-> NoVirtualFile, diagnostics |-> <<>>]
        ELSE [threw |-> FALSE,
              virtualFile |-> getVirtualFileTSX(input, tsx, kind),
              diagnostics |-> tsx.diagnostics]

\* ------------------------------------------------------ frontmatter scan
Delimiter == <<"-", "-", "-">>

\* String.prototype.indexOf(pattern, from): the first offset >= from at which
\* the pattern occurs, or -1.
indexOf(text, pattern, from) ==
    LET hits == {i \in from..(Len(text) - Len(pattern)) :
                    i >= 0 /\ SubSeq(text, i + 1, i + Len(pattern)) = pattern}
    IN  IF hits = {} THEN -1 ELSE CHOOSE i \in hits : \A j \in hits : i <= j

\* The compiler's point for an offset: 1-based line and column, and offset.
createCompilerPoint(text, offset) ==
    LET before == {i \in 1..offset : text[i] = NL}
        lineStart == IF before = {} THEN 0 ELSE CHOOSE i \in before : \A j \in before : j <= i
    IN  [line |-> Cardinality(before) + 1, column |-> offset - lineStart + 1, offset |-> offset]

NoPoint == [line |-> 0, column |-> 0, offset |-> -1]

\* Mutant: the close delimiter's position recorded at its first dash.
getFrontmatterStatus_CloseAtStart(text) ==
    LET open == indexOf(text, Delimiter, 0)
        close == IF open < 0 THEN -1 ELSE indexOf(text, Delimiter, open + 3)
    IN  IF open < 0 THEN [threw |-> FALSE, status |-> "doesnt-exist", start |-> NoPoint, end |-> NoPoint]
        ELSE IF close < 0
        THEN [threw |-> FALSE, status |-> "open",
              start |-> createCompilerPoint(text, open), end |-> NoPoint]
        ELSE [threw |-> FALSE, status |-> "closed",
              start |-> createCompilerPoint(text, open),
              end |-> createCompilerPoint(text, close)]

\* Mutant: the search for the close delimiter starts one unit after the
\* start of the open delimiter instead of after it.
getFrontmatterStatus_Overlapping(text) ==
    LET open == indexOf(text, Delimiter, 0)
        close == IF open < 0 THEN -1 ELSE indexOf(text, Delimiter, open + 1)
    IN  IF open < 0 THEN [threw |-> FALSE, status |-> "doesnt-exist", start |-> NoPoint, end |-> NoPoint]
        ELSE IF close < 0
        THEN [threw |-> FALSE, status |-> "open",
              start |-> createCompilerPoint(text, open), end |-> NoPoint]
        ELSE [threw |-> FALSE, status |-> "closed",
              start |-> createCompilerPoint(text, open),
              end |-> createCompilerPoint(text, close + 3)]

\* The frontmatter scan: search the text for the delimiter; none gives
\* 'doesnt-exist', one gives 'open', and a second one after the first gives
\* 'closed', with the point where the first starts and the point where the
\* second ends.
getFrontmatterStatus(text) ==
    LET open == indexOf(text, Delimiter, 0)
        close == IF open < 0 THEN -1 ELSE indexOf(text, Delimiter, open + 3)
    IN  IF open < 0 THEN [threw |-> FALSE, status |-> "doesnt-exist", start |-> NoPoint, end |-> NoPoint]
        ELSE IF close < 0
        THEN [threw |-> FALSE, status |-> "open",
              start |-> createCompilerPoint(text, open), end |-> NoPoint]
        ELSE [threw |-> FALSE, status |-> "closed",
              start |-> createCompilerPoint(text, open),
              end |-> createCompilerPoint(text, close + 3)]

NotScanned == [threw |-> FALSE, status |-> "none", start |-> NoPoint, end |-> NoPoint]

\* -------------------------------------------------------------- AstroFile
\* In the texts of a file, "s" stands for a style element, "j" for a script
\* element and "x" for markup the compiler cannot transform.
\* The compiler is a function of the text: here it throws on "x" and else
\* hands back the text as code, mapped from its start to its end.
convertToTSX(content) ==
    [throws |-> \E i \in 1..Len(content) : content[i] = "x",
     code |-> content,
     mappings |-> << <<<<0, 0, 0, 0>>>>, <<<<0>>>> >>,
     diagnostics |-> <<>>]

\* getAstroMetadata: of the parse result the model keeps the frontmatter.
getAstroMetadata(text) == [frontmatter |-> getFrontmatterStatus(text)]

\* The mapping of a whole text onto itself, with the given capabilities.
rootMapping(length, data) ==
    [sourceRange |-> <<0, length>>, generatedRange |-> <<0, length>>, data |-> data]

FullCapabilities == {<<"full", TRUE>>}

\* The elements of the given kind in the markup after the frontmatter, as
\* their offsets in document order.
elementsAt(text, from, unit) ==
    LET at == {i \in from..(Len(text) - 1) : text[i + 1] = unit}
        RECURSIVE ordered(_)
        ordered(rest) ==
            IF rest = {} THEN <<>>
            ELSE LET m == CHOOSE i \in rest : \A j \in rest : i <= j
                 IN  <<m>> \o ordered(rest \ {m})
    IN  ordered(at)

\* parseHTML(fileName, snapshot, frontmatterEnd): the markup tree of the
\* text after the frontmatter and the HTML virtual file over the whole text.
parseHTML(text, frontmatterEnd) ==
    [htmlDocument |-> [styles |-> elementsAt(text, frontmatterEnd, "s"),
                       scripts |-> elementsAt(text, frontmatterEnd, "j")],
     virtualFile |-> [languageId |-> "html", code |-> text,
                      mappings |-> <<rootMapping(Len(text), FullCapabilities)>>,
                      embeddedFiles |-> <<>>]]

\* One embedded file per element, mapped at the element's offset.
blockFiles(offsets, languageId) ==
    [k \in 1..Len(offsets) |->
        [languageId |-> languageId, code |-> <<>>,
         mappings |-> <<[sourceRange |-> <<offsets[k], offsets[k] + 1>>,
                         generatedRange |-> <<0, 1>>, data |-> FullCapabilities]>>,
         embeddedFiles |-> <<>>]]

extractStylesheets(htmlDocument) == blockFiles(htmlDocument.styles, "css")
extractScriptTags(htmlDocument) == blockFiles(htmlDocument.scripts, "typescript")

NoHtmlDocument == [styles |-> <<>>, scripts |-> <<>>]

\* The fields of an object before its constructor has assigned them.
BlankFile(package, fileKind, snapshot) ==
    [package |-> package, fileName |-> fileKind, snapshot |-> snapshot,
     mappings |-> <<>>, astroMeta |-> [frontmatter |-> NotScanned],
     htmlDocument |-> NoHtmlDocument, embeddedFiles |-> <<>>,
     compilerDiagnostics |-> <<>>]

\* Mutant: embeddedFiles is not emptied before the files are pushed.
onSnapshotUpdated_KeepEmbedded(this) ==
    LET text == this.snapshot
        tsx == astro2tsx(text, this.fileName, convertToTSX(text))
        astroMeta == getAstroMetadata(text)
        html == parseHTML(text, IF astroMeta.frontmatter.status = "closed"
                                THEN astroMeta.frontmatter.end.offset ELSE 0)
        htmlVirtualFile ==
            [html.virtualFile EXCEPT !.embeddedFiles =
                @ \o extractStylesheets(html.htmlDocument) \o extractScriptTags(html.htmlDocument)]
    IN  IF this.package = "ts-plugin"
        THEN [this EXCEPT !.mappings = <<rootMapping(Len(text), {})>>,
                          !.embeddedFiles = Append(this.embeddedFiles, tsx.virtualFile)]
        ELSE [this EXCEPT !.mappings = <<rootMapping(Len(text), FullCapabilities)>>,
                          !.astroMeta = astroMeta,
                          !.htmlDocument = html.htmlDocument,
                          !.embeddedFiles = Append(Append(this.embeddedFiles, htmlVirtualFile),
                                                   tsx.virtualFile),
                          !.compilerDiagnostics = tsx.diagnostics]

\* AstroFile.onSnapshotUpdated, of the language server and of the TypeScript
\* plugin: every derived field is assigned anew from this.snapshot.
onSnapshotUpdated(this) ==
    LET text == this.snapshot
        tsx == astro2tsx(text, this.fileName, convertToTSX(text))
        astroMeta == getAstroMetadata(text)
        html == parseHTML(text, IF astroMeta.frontmatter.status = "closed"
                                THEN astroMeta.frontmatter.end.offset ELSE 0)
        htmlVirtualFile ==
            [html.virtualFile EXCEPT !.embeddedFiles =
                @ \o extractStylesheets(html.htmlDocument) \o extractScriptTags(html.htmlDocument)]
    IN  IF this.package = "ts-plugin"
        THEN [this EXCEPT !.mappings = <<rootMapping(Len(text), {})>>,
                          !.embeddedFiles = Append(<<>>, tsx.virtualFile)]
        ELSE [this EXCEPT !.mappings = <<rootMapping(Len(text), FullCapabilities)>>,
                          !.astroMeta = astroMeta,
                          !.htmlDocument = html.htmlDocument,
                          !.embeddedFiles = Append(Append(<<>>, htmlVirtualFile),
                                                   tsx.virtualFile),
                          !.compilerDiagnostics = tsx.diagnostics]

\* new AstroFile(fileName, snapshot, ts)
newAstroFile(package, fileKind, snapshot) ==
    onSnapshotUpdated(BlankFile(package, fileKind, snapshot))

\* AstroFile.update(newSnapshot)
update(this, newSnapshot) ==
    onSnapshotUpdated([this EXCEPT !.snapshot = newSnapshot])

\* ------------------------------------------------------------------ state
\* astro2tsx and the frontmatter scan, as functions under check: their
\* arguments (input, fileName, and what the compiler does for the input),
\* what they returned, and whether the call was made.
\* astroFile is an AstroFile object, updates the number of update() calls
\* made on it.
VARIABLES input, fileName, convertOutcome, result, frontmatter, pc, astroFile, updates

\* server is the state of the component of the language server a
\* specification exercises, a record of the fields named below; while the
\* core is exercised it is NoServer.
VARIABLE server

\* A TypeScriptDocumentSnapshot, and the last update() call made on it: the
\* snapshot before the call and the changes passed.
tsSnapshot == server.tsSnapshot
applied == server.applied

\* A Document of the document manager, the AstroDocumentSnapshot and the
\* DocumentFragmentSnapshot last made of it, and the Document as it was when
\* each of them was made.
document == server.document
astroSnapshot == server.astroSnapshot
fragment == server.fragment
created == server.created

\* A document given to the tag extraction, as the elements it is made of,
\* and what extractTags returned for it.
markup == server.markup
extracted == server.extracted

\* The script tags of a document given to the diagnostics provider, and what
\* getDiagnostics returned for it.
scriptTags == server.scriptTags
diagnostics == server.diagnostics

\* The plugins registered with a PluginHost, the uris its document manager
\* holds, and the outcome of the last request made to it.
plugins == server.plugins
openDocuments == server.openDocuments
response == server.response

\* The ModuleResolutionCache of a module loader, the files that exist, and
\* the last call made to the loader: its arguments and the cache before it.
moduleCache == server.moduleCache
existingFiles == server.existingFiles
lastCall == server.lastCall

\* The arguments of a call of AstroCheck.lint (the diagnostics linter.check
\* has for each file, and the logErrors level), the CheckResult it is
\* building, the values cancel() returned, the files handed to linter.check
\* and the texts written to the console, each in order.
fileNames == server.fileNames
logErrors == server.logErrors
checkResult == server.checkResult
cancelCalls == server.cancelCalls
checked == server.checked
printed == server.printed

\* A MarkdownVirtualCode, and the snapshots it was given so far (the
\* constructor's first).
markdownCode == server.markdownCode
snapshots == server.snapshots

\* The root file of a document given to the TypeScript service plugin, what
\* the wrapped TypeScript service has for it, and the outcome of the last
\* provideSemanticDiagnostics: what it returned and the queries it made.
rootFile == server.rootFile
tsDiagnostics == server.tsDiagnostics
provided == server.provided

\* While the resolver of a module loader is watched: for every pair
\* (moduleName, containingFile) asked for since the last invalidation, how
\* often resolveModuleName ran for it and the results handed back for it.
resolverCalls == server.resolverCalls
returned == server.returned

\* The plugins registered with a PluginHost as what their getCompletions
\* does, whether the document asked about is open, and the outcome of the
\* last getCompletions of the host.
completionPlugins == server.completionPlugins
documentOpen == server.documentOpen
completionList == server.completionList

\* The diagnostic objects the type checker keeps for the file of a script
\* tag, where the content of the tag starts in the document, and how many
\* getDiagnostics calls have mapped the objects.
scriptDiagnostics == server.scriptDiagnostics
contentStart == server.contentStart
mapped == server.mapped

\* A text and an offset given to positionAt, and what positionAt and then
\* offsetAt made of them.
positionText == server.positionText
askedOffset == server.askedOffset
located == server.located

\* The isTrusted flag of the importPackage module, what is installed in the
\* node_modules of each directory, and the last import made: the function,
\* its fromPath, the flag at the call and the outcome.
isTrusted == server.isTrusted
installed == server.installed
imported == server.imported

tsxVars == <<input, fileName, convertOutcome, result, pc>>
scanVars == <<frontmatter>>
fileVars == <<astroFile, updates>>
coreVars == <<input, fileName, convertOutcome, result, frontmatter, pc, astroFile, updates>>
pluginVars == <<server>>
vars == <<coreVars, pluginVars>>

NoServer == [component |-> "none"]
IdlePlugins == server = NoServer

NoSnapshot == [version |-> 0, text |-> <<>>]
NotApplied == [before |-> NoSnapshot, changes |-> <<>>]
NoAstroSnapshot == [made |-> FALSE, version |-> 0]
NoFragment == [made |-> FALSE, version |-> 0, text |-> <<>>]
NoDocument == [version |-> 0, text |-> <<>>]
NoneCreated == [astroSnapshot |-> NoDocument, fragment |-> NoDocument]
NotExtracted == [done |-> FALSE, styles |-> <<>>, scripts |-> <<>>]
NoDiagnostics == [done |-> FALSE, items |-> {}]
NoResponse == [method |-> "none", uri |-> "none", threw |-> FALSE, value |-> "none"]
EmptyCache == [key \in {} |-> [defined |-> FALSE, resolvedFileName |-> <<>>]]
NoCall == [op |-> "none", path |-> <<>>, moduleName |-> <<>>, containingFile |-> "none",
           before |-> EmptyCache]

\* ----------------------------------------------------- inputs of astro2tsx
Inputs == TextsOver({"a", NL}, MaxInput)
Codes == TextsOver({"a", NL, "$"}, MaxCode)

\* A segment of the decoded table: [genCharacter] or
\* [genCharacter, sourcesIndex, sourceLine, sourceCharacter].
Segments ==
    {<<c>> : c \in SegmentCharacters}
        \cup {<<c, 0, l, k>> : c \in SegmentCharacters, l \in SegmentLines, k \in SegmentCharacters}

\* decode() hands back every line sorted by generated column.
SortedLines ==
    {line \in UNION {[1..n -> Segments] : n \in 0..MaxSegments} :
        \A i \in 1..(Len(line) - 1) : line[i][1] < line[i + 1][1]}

RECURSIVE segmentCount(_)
segmentCount(table) ==
    IF table = <<>> THEN 0 ELSE Len(Head(table)) + segmentCount(Tail(table))

Tables == {t \in [1..Cardinality(SegmentLines) -> SortedLines] : segmentCount(t) <= MaxSegments}

compilerWarning == [code |-> 2000, severity |-> 2,
                    location |-> [line |-> 1, column |-> 1, length |-> 0]]

\* What convertToTSX does for the input: it throws, or it returns code, a
\* table and diagnostics.
Throws == [throws |-> TRUE, code |-> <<>>, mappings |-> << <<>> >>, diagnostics |-> <<>>]

ConvertOutcomes ==
    {Throws}
        \cup {[throws |-> FALSE, code |-> c, mappings |-> t, diagnostics |-> <<>>] :
                c \in Codes, t \in Tables}
        \cup {[throws |-> FALSE, code |-> c, mappings |-> [l \in 1..Cardinality(SegmentLines) |-> <<>>],
               diagnostics |-> <<compilerWarning>>] : c \in Codes}

\* The kinds of file name that matter for a code: a plain name, and every
\* other kind under which patchTSX gives another result than under it.
kindsFor(code) ==
    {"plain"} \cup {k \in FileKinds : patchTSX(code, k) # patchTSX(code, "plain")}

NoResult == [threw |-> FALSE, virtualFile |-> NoVirtualFile, diagnostics |-> <<>>]

NoFile == BlankFile("none", "plain", <<>>)

\* The values of the core's state while a plugin is exercised.
IdleCore ==
    /\ input = <<>>
    /\ fileName = "plain"
    /\ convertOutcome = Throws
    /\ result = NoResult
    /\ frontmatter = NotScanned
    /\ pc = "plugins"
    /\ astroFile = NoFile
    /\ updates = 0

\* ------------------------------------------- specification of astro2tsx
\* The file name is read by patchTSX only.
InitTsx ==
    /\ input \in Inputs
    /\ convertOutcome \in ConvertOutcomes
    /\ fileName \in kindsFor(convertOutcome.code)
    /\ result = NoResult
    /\ frontmatter = NotScanned
    /\ pc = "call"
    /\ astroFile = NoFile
    /\ updates = 0
    /\ IdlePlugins

CallAstro2tsx ==
    /\ pc = "call"
    /\ result' = astro2tsx(input, fileName, convertOutcome)
    /\ pc' = "done"
    /\ UNCHANGED <<input, fileName, convertOutcome, frontmatter, astroFile, updates, pluginVars>>

NextTsx == CallAstro2tsx

SpecTsx == InitTsx /\ [][NextTsx]_vars

\* ---------------------------------- specification of the frontmatter scan
ScanTexts == TextsOver({"-", "a", NL}, MaxText)

InitScan ==
    /\ input \in ScanTexts
    /\ fileName = "plain"
    /\ convertOutcome = Throws
    /\ result = NoResult
    /\ frontmatter = NotScanned
    /\ pc = "call"
    /\ astroFile = NoFile
    /\ updates = 0
    /\ IdlePlugins

CallGetFrontmatterStatus ==
    /\ pc = "call"
    /\ frontmatter' = getFrontmatterStatus(input)
    /\ pc' = "done"
    /\ UNCHANGED <<input, fileName, convertOutcome, result, astroFile, updates, pluginVars>>

NextScan == CallGetFrontmatterStatus

SpecScan == InitScan /\ [][NextScan]_vars

\* ------------------------------------------------ position translation
\* Translation of an offset through one mapping entry, by linear
\* interpolation of its place in `from` into `to`.
translate(o, from, to) ==
    IF from[2] = from[1]
    THEN to[1]
    ELSE to[1] + ((o - from[1]) * (to[2] - to[1])) \div (from[2] - from[1])

toGenerated(entry, o) == translate(o, entry.sourceRange, entry.generatedRange)
toSource(entry, g) == translate(g, entry.generatedRange, entry.sourceRange)

\* ------------------------------------------------- claims on astro2tsx
Returned == pc = "done" /\ ~result.threw
genCode == result.virtualFile.code
genMappings == result.virtualFile.mappings
rangeLength(range) == range[2] - range[1]
hasStatement(code) == \E i \in 1..Len(code) : code[i] # NL

\* The indices of the entries that come from the table: all of them, but for
\* the whole-document entry pushed last when the code has a statement.
TableEntries ==
    IF hasStatement(genCode) THEN 1..(Len(genMappings) - 1) ELSE 1..Len(genMappings)

roundTrips(entry) ==
    /\ rangeLength(entry.sourceRange) = rangeLength(entry.generatedRange)
    /\ \A o \in entry.sourceRange[1]..entry.sourceRange[2] :
          toSource(entry, toGenerated(entry, o)) = o

\* C3 as stated: every entry of the mapping list, the whole-document entry
\* included, has ranges of the same length and translates every offset of
\* its sourceRange to the generated code and back to itself.
C3_AsStated ==
    Returned => \A i \in 1..Len(genMappings) : roundTrips(genMappings[i])

\* C3, amended: every entry derived from the line-mapping table has ranges of
\* the same length and translates every offset of its sourceRange to the
\* generated code and back to itself.
C3_TableEntriesRoundTrip ==
    Returned => \A i \in TableEntries : roundTrips(genMappings[i])

\* A table entry made by merging two segments, with an offset strictly inside.
C3_Witness ==
    /\ Returned
    /\ input = <<"a", "a">>
    /\ convertOutcome.code = <<"a", "a">>
    /\ convertOutcome.mappings = << <<<<0, 0, 0, 0>>, <<1, 0, 0, 1>>>>, <<<<0>>>> >>
    /\ genMappings[1].sourceRange = <<0, 2>>
    /\ genMappings[1].generatedRange = <<0, 2>>

inside(o, range) == range[1] <= o /\ o < range[2]

C5_TableEntriesSameText ==
    Returned =>
        \A i \in TableEntries :
            LET e == genMappings[i]
            IN  /\ rangeLength(e.sourceRange) = rangeLength(e.generatedRange)
                /\ rangeLength(e.sourceRange) > 0
                /\ e.sourceRange[1] >= 0 /\ e.sourceRange[2] <= Len(input)
                /\ e.generatedRange[1] >= 0 /\ e.generatedRange[2] <= Len(genCode)
                /\ SubSeq(input, e.sourceRange[1] + 1, e.sourceRange[2])
                     = SubSeq(genCode, e.generatedRange[1] + 1, e.generatedRange[2])

\* A segment whose texts diverge after one unit: only the common prefix is
\* mapped.
C5_Witness ==
    /\ Returned
    /\ input = <<"a", "a">>
    /\ convertOutcome.code = <<"a", NL>>
    /\ convertOutcome.mappings = << <<<<0, 0, 0, 0>>>>, <<<<0>>>> >>
    /\ genMappings[1].sourceRange = <<0, 1>>
    /\ genMappings[1].generatedRange = <<0, 1>>

\* The table as the loops walk it, and the offsets of its k-th segment.
walked == flattenSegments(safeConvertToTSX(input, convertOutcome).mappings)
segmentGenOffset(k) == docOffsetAt(genCode, walked[k][1], walked[k][2][1])
segmentSourceOffset(k) == docOffsetAt(input, walked[k][2][3], walked[k][2][4])

\* The end of the k-th segment's span of generated code: the start of the
\* next segment, or the end of the code for the last segment.
segmentGenEnd(k) == IF k < Len(walked) THEN segmentGenOffset(k + 1) ELSE Len(genCode)

\* The segment carries a source position and its first unit is the same in
\* the input and in the generated code.
agreesOnAUnit(k) ==
    /\ Len(walked[k][2]) >= 4
    /\ segmentGenOffset(k) < segmentGenEnd(k)
    /\ segmentSourceOffset(k) < Len(input)
    /\ input[segmentSourceOffset(k) + 1] = genCode[segmentGenOffset(k) + 1]

\* An entry that holds the segment's first unit, at the same distance from
\* its start in the source and in the generated range.
covers(entry, k) ==
    /\ inside(segmentSourceOffset(k), entry.sourceRange)
    /\ inside(segmentGenOffset(k), entry.generatedRange)
    /\ segmentSourceOffset(k) - entry.sourceRange[1]
         = segmentGenOffset(k) - entry.generatedRange[1]

\* C6 as stated: every segment of the table that carries a source position
\* and agrees with the generated code on at least one unit is covered by a
\* mapping entry, the last segment of the table included.
C6_AsStated ==
    Returned =>
        \A k \in 1..Len(walked) :
            agreesOnAUnit(k) => \E i \in 1..Len(genMappings) : covers(genMappings[i], k)

\* C7: when the generated code has a statement, the mapping list is the
\* entries of the table followed by exactly one whole-document entry with
\* sourceRange [0, input.length] and generatedRange [start of the first
\* statement, code.length]; when it has none, the list is the entries of the
\* table alone.
C7_WholeDocumentEntry ==
    Returned =>
        LET fromTable == tableMappings(input, genCode,
                                       safeConvertToTSX(input, convertOutcome).mappings)
            n == Len(genMappings)
        IN  IF hasStatement(genCode)
            THEN /\ n = Len(fromTable) + 1
                 /\ genMappings[n].sourceRange = <<0, Len(input)>>
                 /\ genMappings[n].generatedRange[2] = Len(genCode)
                 /\ genMappings[n].generatedRange[1] < Len(genCode)
                 /\ genCode[genMappings[n].generatedRange[1] + 1] # NL
                 /\ \A j \in 1..genMappings[n].generatedRange[1] : genCode[j] = NL
            ELSE n = Len(fromTable)

\* Generated code that starts with a line feed, so that its first statement
\* does not start at offset 0, after a table that gives one entry.
C7_Witness ==
    /\ Returned
    /\ Len(genMappings) = 2
    /\ genCode = <<NL, "a">>
    /\ genMappings[2].generatedRange = <<1, 2>>

\* C8: every entry of the mapping list, merged entries and the
\* whole-document entry included, has formattingEdits set to false.
C8_FormattingDisabled ==
    Returned =>
        \A i \in 1..Len(genMappings) :
            /\ <<"formattingEdits", FALSE>> \in genMappings[i].data
            /\ <<"formattingEdits", TRUE>> \notin genMappings[i].data

\* A list that holds an entry of the table and the whole-document entry.
C8_Witness ==
    /\ Returned
    /\ hasStatement(genCode)
    /\ Len(genMappings) >= 2

\* C9: if the compiler throws, astro2tsx returns, and returns a virtual file
\* with empty code and no mapping together with exactly one diagnostic: code
\* 1000, severity 1, at line 1, column 1, as long as the input.
C9_CompilerThrows ==
    (pc = "done" /\ convertOutcome.throws) =>
        /\ ~result.threw
        /\ result.virtualFile.languageId = "typescriptreact"
        /\ result.virtualFile.code = <<>>
        /\ result.virtualFile.mappings = <<>>
        /\ Len(result.diagnostics) = 1
        /\ result.diagnostics[1].code = 1000
        /\ result.diagnostics[1].severity = 1
        /\ result.diagnostics[1].location = [line |-> 1, column |-> 1, length |-> Len(input)]

\* astro2tsx has returned for a non-empty input on which the compiler threw.
C9_Witness ==
    /\ pc = "done"
    /\ convertOutcome.throws
    /\ Len(input) = MaxInput
    /\ Len(result.diagnostics) = 1

\* --------------------------------------- claims on the frontmatter scan
\* The number of delimiters in a text, counted from the left without
\* overlap (text.split('---').length - 1).
RECURSIVE delimiterCount(_)
delimiterCount(text) ==
    IF Len(text) < 3 THEN 0
    ELSE IF SubSeq(text, 1, 3) = Delimiter
         THEN 1 + delimiterCount(SubSeq(text, 4, Len(text)))
         ELSE delimiterCount(Tail(text))

\* C1: the scan classifies every text by the number of delimiters in it:
\* none gives 'doesnt-exist', one gives 'open', two or more give 'closed'; the
\* status is always one of these three.
C1_StatusByDelimiterCount ==
    pc = "done" =>
        /\ frontmatter.status \in {"doesnt-exist", "open", "closed"}
        /\ (frontmatter.status = "doesnt-exist") = (delimiterCount(input) = 0)
        /\ (frontmatter.status = "open") = (delimiterCount(input) = 1)
        /\ (frontmatter.status = "closed") = (delimiterCount(input) >= 2)

\* Four dashes: one delimiter, though "---" occurs at two offsets.
C1_Witness ==
    /\ pc = "done"
    /\ input = <<"-", "-", "-", "-">>
    /\ frontmatter.status = "open"

\* The offsets at which a delimiter starts.
occurrences(text) == {i \in 0..(Len(text) - 3) : SubSeq(text, i + 1, i + 3) = Delimiter}

\* C2: the scan never throws, and when it returns 'closed' the start is the
\* first occurrence of the delimiter, the end is the end of the next
\* occurrence after it, and the end offset is greater than the start offset.
C2_ClosedPositions ==
    pc = "done" =>
        /\ ~frontmatter.threw
        /\ frontmatter.status \in {"doesnt-exist", "open", "closed"}
        /\ frontmatter.status = "closed" =>
              /\ frontmatter.start.offset \in occurrences(input)
              /\ \A i \in occurrences(input) : frontmatter.start.offset <= i
              /\ frontmatter.end.offset - 3 \in occurrences(input)
              /\ \A i \in occurrences(input) :
                    i >= frontmatter.start.offset + 3 => frontmatter.end.offset - 3 <= i
              /\ frontmatter.end.offset > frontmatter.start.offset

\* The text "---\n---": closed, from offset 0 to offset 7 on line 2.
C2_Witness ==
    /\ pc = "done"
    /\ input = <<"-", "-", "-", NL, "-", "-", "-">>
    /\ frontmatter.status = "closed"
    /\ frontmatter.start = [line |-> 1, column |-> 1, offset |-> 0]
    /\ frontmatter.end = [line |-> 2, column |-> 4, offset |-> 7]

\* ----------------------------------------- specification of AstroFile
FileUnits == {"-", "s", "j", "x"}
FileTexts == TextsOver(FileUnits, MaxSnapshot)
Packages == {"language-server", "ts-plugin"}

\* The texts one edit away from a text: a unit inserted, deleted or
\* replaced; and the text itself, and the empty text.
Edits(text) ==
    {text, <<>>}
        \cup {SubSeq(text, 1, i) \o <<u>> \o SubSeq(text, i + 1, Len(text)) :
                i \in 0..Len(text), u \in FileUnits}
        \cup {SubSeq(text, 1, i - 1) \o SubSeq(text, i + 1, Len(text)) : i \in 1..Len(text)}
        \cup {[text EXCEPT ![i] = u] : i \in 1..Len(text), u \in FileUnits}

InitFile ==
    /\ input = <<>>
    /\ fileName = "plain"
    /\ convertOutcome = Throws
    /\ result = NoResult
    /\ frontmatter = NotScanned
    /\ pc = "file"
    /\ \E package \in Packages, snapshot \in FileTexts :
          astroFile = newAstroFile(package, "plain", snapshot)
    /\ updates = 0
    /\ IdlePlugins

\* updateVirtualFile(astroFile, snapshot): the editor changed the document.
UpdateVirtualFile ==
    /\ pc = "file"
    /\ updates < MaxUpdates
    /\ \E newSnapshot \in Edits(astroFile.snapshot) :
          /\ Len(newSnapshot) <= MaxSnapshot
          /\ astroFile' = update(astroFile, newSnapshot)
    /\ updates' = updates + 1
    /\ UNCHANGED <<input, fileName, convertOutcome, result, frontmatter, pc, pluginVars>>

NextFile == UpdateVirtualFile

SpecFile == InitFile /\ [][NextFile]_vars

\* ------------------------------------------------- claims on AstroFile
\* C10: after any sequence of update calls, the root mapping, the metadata,
\* the HTML document, the embedded files and the compiler diagnostics of an
\* AstroFile are those of a freshly constructed AstroFile for its latest
\* snapshot.
C10_UpdateRederivesAll ==
    pc = "file" =>
        astroFile = newAstroFile(astroFile.package, astroFile.fileName, astroFile.snapshot)

\* A language-server file updated twice, now a style element followed by
\* markup the compiler throws on: it holds the HTML file with its one style
\* block and the TSX file, and the one diagnostic of this text.
C10_Witness ==
    /\ pc = "file"
    /\ updates = 2
    /\ astroFile.package = "language-server"
    /\ astroFile.snapshot = <<"s", "x">>
    /\ Len(astroFile.embeddedFiles) = 2
    /\ Len(astroFile.embeddedFiles[1].embeddedFiles) = 1
    /\ Len(astroFile.compilerDiagnostics) = 1
    /\ Len(astroFile.mappings) = 1

\* ------------------------------------------- TypeScriptDocumentSnapshot
CR == "\r"

\* String.prototype.slice(start, end) for arguments that are not negative.
slice(text, start, end) == SubSeq(text, Min(start, Len(text)) + 1, Min(end, Len(text)))

\* getLineOffsets(text): the loop from unit i on, lineOffsets collected so far.
RECURSIVE scanLineOffsets(_, _, _, _)
scanLineOffsets(text, i, isLineStart, lineOffsets) ==
    IF i >= Len(text)
    THEN IF isLineStart /\ Len(text) > 0 THEN Append(lineOffsets, Len(text)) ELSE lineOffsets
    ELSE LET ch == text[i + 1]
             pushed == IF isLineStart THEN Append(lineOffsets, i) ELSE lineOffsets
             next == IF ch = CR /\ i + 1 < Len(text) /\ text[i + 2] = NL THEN i + 2 ELSE i + 1
         IN  scanLineOffsets(text, next, ch = CR \/ ch = NL, pushed)

getLineOffsets(text) == scanLineOffsets(text, 0, TRUE, <<>>)

\* offsetAt(position, text); clamp(num, min, max) is max(min, min(max, num)).
offsetAt(position, text) ==
    LET lineOffsets == getLineOffsets(text)
    IN  IF position.line >= Len(lineOffsets) THEN Len(text)
        ELSE IF position.line < 0 THEN 0
        ELSE LET lineOffset == lineOffsets[position.line + 1]
                 nextLineOffset == IF position.line + 1 < Len(lineOffsets)
                                   THEN lineOffsets[position.line + 2]
                                   ELSE Len(text)
             IN  Max(lineOffset, Min(lineOffset + position.character, nextLineOffset))

\* The body of update's loop with the change's text inserted at start and
\* nothing removed.
applyChange_InsertOnly(text, change) ==
    LET start == IF change.hasRange THEN offsetAt(change.range.start, text) ELSE 0
    IN  slice(text, 0, start) \o change.text \o slice(text, start, Len(text))

\* The body of update's loop: the text after one change.
applyChange(text, change) ==
    LET start == IF change.hasRange THEN offsetAt(change.range.start, text) ELSE 0
        end == IF change.hasRange THEN offsetAt(change.range.end, text) ELSE Len(text)
    IN  slice(text, 0, start) \o change.text \o slice(text, end, Len(text))

RECURSIVE applyChanges(_, _)
applyChanges(text, changes) ==
    IF changes = <<>> THEN text
    ELSE applyChanges(applyChange(text, Head(changes)), Tail(changes))

\* update with the version raised once for every change.
TypeScriptDocumentSnapshot_update_VersionPerChange(this, changes) ==
    [version |-> this.version + Len(changes), text |-> applyChanges(this.text, changes)]

\* TypeScriptDocumentSnapshot.update(changes)
TypeScriptDocumentSnapshot_update(this, changes) ==
    [version |-> this.version + 1, text |-> applyChanges(this.text, changes)]

\* createDocumentSnapshot(filePath, currentText) for a file that is not an
\* Astro file.
createDocumentSnapshot(currentText) == [version |-> 0, text |-> currentText]

\* ------------------------------- specification of the document snapshot
ChangeLines == {0, 1}
ChangeCharacters == {0, 1}
ChangeTexts == {<<>>, <<"b", NL>>}
ChangeCounts == {0, 1, 2}
UpdateCalls == {1, 2}

\* The texts a snapshot is created with: none, one line, lines with and
\* without a line break at the end.
SnapshotTexts ==
    {<<>>, <<"a">>, <<NL>>, <<"a", "a">>, <<"a", NL>>, <<NL, "a">>, <<"a", NL, "a">>}

Positions == [line : ChangeLines, character : ChangeCharacters]

notAfter(p, q) == p.line < q.line \/ (p.line = q.line /\ p.character <= q.character)

\* The ranges a client sends: the start is not after the end.
Ranges == {r \in [start : Positions, end : Positions] : notAfter(r.start, r.end)}

NoRange == [start |-> [line |-> 0, character |-> 0], end |-> [line |-> 0, character |-> 0]]

Changes ==
    [hasRange : {TRUE}, range : Ranges, text : ChangeTexts]
        \cup [hasRange : {FALSE}, range : {NoRange}, text : ChangeTexts]

ChangeLists == UNION {[1..n -> Changes] : n \in ChangeCounts}

InitSnapshot ==
    /\ IdleCore
    /\ \E currentText \in SnapshotTexts :
          server = [tsSnapshot |-> createDocumentSnapshot(currentText), applied |-> NotApplied]

\* The document manager hands the changes of one edit to the snapshot.
UpdateSnapshot ==
    /\ tsSnapshot.version + 1 \in UpdateCalls
    /\ \E changes \in ChangeLists :
          server' = [tsSnapshot |-> TypeScriptDocumentSnapshot_update(tsSnapshot, changes),
                     applied |-> [before |-> tsSnapshot, changes |-> changes]]
    /\ UNCHANGED coreVars

NextSnapshot == UpdateSnapshot

SpecSnapshot == InitSnapshot /\ [][NextSnapshot]_vars

\* ------------------------------------- claims on the document snapshot
\* C11: every call of TypeScriptDocumentSnapshot.update raises the version
\* by exactly one, whatever the number of changes in the call, zero
\* included; the version never decreases.
C11_VersionPlusOne ==
    [][tsSnapshot'.version = tsSnapshot.version + 1]_server

\* Two calls made, the last with an empty list of changes: the version went
\* from 1 to 2 and the text stayed.
C11_Witness ==
    /\ tsSnapshot.version = 2
    /\ applied.changes = <<>>
    /\ applied.before.version = 1
    /\ tsSnapshot.text = applied.before.text

\* The text left by a list of changes applied one after the other, each range
\* read on the text left by the changes before it.
RECURSIVE splicedInOrder(_, _)
splicedInOrder(text, changes) ==
    IF changes = <<>> THEN text
    ELSE LET change == Head(changes)
             from == IF change.hasRange THEN offsetAt(change.range.start, text) ELSE 0
             to == IF change.hasRange THEN offsetAt(change.range.end, text) ELSE Len(text)
             after == SubSeq(text, 1, from) \o change.text \o SubSeq(text, to + 1, Len(text))
         IN  splicedInOrder(after, Tail(changes))

RECURSIVE replaceDelimiters(_)
replaceDelimiters(content) ==
    IF Len(content) >= 3 /\ SubSeq(content, 1, 3) = Delimiter
    THEN <<"/", "/", "/">> \o replaceDelimiters(SubSeq(content, 4, Len(content)))
    ELSE IF content = <<>> THEN <<>>
    ELSE <<Head(content)>> \o replaceDelimiters(Tail(content))

\* One unit for the text of astro.d.ts, one for `interface Props` in a
\* document, one for each default export addProps declares.
ASTRO_DEFINITION == "astro.d.ts"
PropsDeclaration == "P"

\* AstroDocumentSnapshot.addProps(content, dtsContent)
addProps(content, dtsContent) ==
    LET defaultExportType ==
            IF \E i \in 1..Len(content) : content[i] = PropsDeclaration
            THEN "Props" ELSE "Record<string, any>"
    IN  <<dtsContent, NL, defaultExportType>>

\* AstroDocumentSnapshot.transformContent(content)
AstroDocumentSnapshot_transformContent(content) ==
    LET raw == replaceDelimiters(content)
    IN  raw \o addProps(raw, ASTRO_DEFINITION)

\* DocumentFragmentSnapshot.transformContent(content)
DocumentFragmentSnapshot_transformContent(content) ==
    replaceDelimiters(content) \o <<ASTRO_DEFINITION>>

\* new AstroDocumentSnapshot(doc): the version is a field set from
\* doc.version when the object is made; the text is no field.
newAstroDocumentSnapshot(doc) == [made |-> TRUE, version |-> doc.version]

\* AstroDocumentSnapshot's getter text, read by getText, getLength and
\* getFullText: the text of this.doc at the time of the read.
AstroDocumentSnapshot_text(doc) == AstroDocumentSnapshot_transformContent(doc.text)

\* new DocumentFragmentSnapshot(mapper, parent)
newDocumentFragmentSnapshot(parent) ==
    [made |-> TRUE, version |-> parent.version,
     text |-> DocumentFragmentSnapshot_transformContent(parent.text)]

\* An edit of a Document: its text is replaced in place and its version grows.
Document_update(doc, text) == [version |-> doc.version + 1, text |-> text]

\* ---------------------------- specification of the Astro snapshots
DocumentTexts == TextsOver({"-", "a"}, MaxText - 4) \cup {<<PropsDeclaration>>}

InitAstroSnapshot ==
    /\ IdleCore
    /\ \E text \in DocumentTexts :
          server = [document |-> [version |-> 0, text |-> text],
                    astroSnapshot |-> NoAstroSnapshot,
                    fragment |-> NoFragment,
                    created |-> NoneCreated]

\* createDocumentSnapshot(filePath, currentText, createDocument) for an Astro
\* file.
CreateAstroSnapshot ==
    /\ server' = [server EXCEPT !.astroSnapshot = newAstroDocumentSnapshot(document),
                                !.created.astroSnapshot = document]
    /\ UNCHANGED coreVars

\* AstroDocumentSnapshot.getFragment()
GetFragment ==
    /\ astroSnapshot.made
    /\ server' = [server EXCEPT !.fragment = newDocumentFragmentSnapshot(document),
                                !.created.fragment = document]
    /\ UNCHANGED coreVars

\* The editor changes the document.
EditDocument ==
    /\ document.version < MaxUpdates
    /\ \E text \in DocumentTexts :
          server' = [server EXCEPT !.document = Document_update(document, text)]
    /\ UNCHANGED coreVars

NextAstroSnapshot == CreateAstroSnapshot \/ GetFragment \/ EditDocument

SpecAstroSnapshot == InitAstroSnapshot /\ [][NextAstroSnapshot]_vars

\* --------------------------------------- claims on the Astro snapshots
\* The fragment serves the text and reports the version of the Document as
\* it was when the fragment was made.
fragmentImmutable ==
    fragment.made =>
        /\ fragment.text = DocumentFragmentSnapshot_transformContent(created.fragment.text)
        /\ fragment.version = created.fragment.version

\* The AstroDocumentSnapshot serves the text and reports the version of the
\* Document as it was when the snapshot was made.
astroSnapshotImmutable ==
    astroSnapshot.made =>
        /\ AstroDocumentSnapshot_text(document)
             = AstroDocumentSnapshot_transformContent(created.astroSnapshot.text)
        /\ astroSnapshot.version = created.astroSnapshot.version

\* C13 as stated: a snapshot of an Astro document is immutable once made: the
\* text it serves and the version it reports belong to the same version of
\* the document, and a later edit of the document changes neither, for both
\* AstroDocumentSnapshot and DocumentFragmentSnapshot.
C13_AsStated == astroSnapshotImmutable /\ fragmentImmutable

\* ----------------------------------------------------------- extractTags
\* A document is written as its elements: [tag, content, children], a style
\* or script element with content units of text, or a div with children.
\* In the text a start tag, an end tag and a unit of content are one unit
\* each. The last `unclosed` end tags of the text are missing: those of the
\* last root, of its last child, and so on.
Undefined == -1
startTag(tag) == "<" \o tag \o ">"
endTag(tag) == "</" \o tag \o ">"

RECURSIVE textOfElement(_, _), textOfElements(_, _)
textOfElement(element, unclosed) ==
    <<startTag(element.tag)>>
        \o [i \in 1..element.content |-> "c"]
        \o textOfElements(element.children, Max(unclosed - 1, 0))
        \o (IF unclosed > 0 THEN <<>> ELSE <<endTag(element.tag)>>)

textOfElements(elements, unclosed) ==
    IF elements = <<>> THEN <<>>
    ELSE textOfElement(Head(elements), IF Len(elements) = 1 THEN unclosed ELSE 0)
            \o textOfElements(Tail(elements), unclosed)

\* parseHtml(text).roots: the nodes of vscode-html-languageservice for the
\* elements, the first of them starting at offset start.
RECURSIVE nodeOf(_, _, _), nodesOf(_, _, _)
nodeOf(element, start, unclosed) ==
    LET end == start + Len(textOfElement(element, unclosed))
    IN  [tag |-> element.tag,
         start |-> start,
         startTagEnd |-> start + 1,
         endTagStart |-> IF unclosed > 0 THEN Undefined ELSE end - 1,
         end |-> end,
         closed |-> unclosed = 0,
         children |-> nodesOf(element.children, start + 1 + element.content,
                              Max(unclosed - 1, 0))]

nodesOf(elements, start, unclosed) ==
    IF elements = <<>> THEN <<>>
    ELSE LET first == nodeOf(Head(elements), start, IF Len(elements) = 1 THEN unclosed ELSE 0)
         IN  <<first>> \o nodesOf(Tail(elements), first.end, unclosed)

parseHtml(doc) == [roots |-> nodesOf(doc.roots, 0, doc.unclosed)]

\* walk(node): the nodes under a node, then the node.
RECURSIVE walk(_), walkAll(_)
walk(node) == walkAll(node.children) \o <<node>>

walkAll(nodes) == IF nodes = <<>> THEN <<>> ELSE walk(Head(nodes)) \o walkAll(Tail(nodes))

\* transformToTagInfo with the content span starting where the element starts.
transformToTagInfo_FromContainer(matchedNode, text) ==
    LET start == matchedNode.start
        end == IF matchedNode.endTagStart # Undefined THEN matchedNode.endTagStart
               ELSE matchedNode.end
    IN  [content |-> substring(text, start, end),
         start |-> start,
         end |-> end,
         container |-> [start |-> matchedNode.start, end |-> matchedNode.end],
         closed |-> matchedNode.closed]

\* transformToTagInfo(matchedNode)
transformToTagInfo(matchedNode, text) ==
    LET start == IF matchedNode.startTagEnd # Undefined THEN matchedNode.startTagEnd
                 ELSE matchedNode.start
        end == IF matchedNode.endTagStart # Undefined THEN matchedNode.endTagStart
               ELSE matchedNode.end
    IN  [content |-> substring(text, start, end),
         start |-> start,
         end |-> end,
         container |-> [start |-> matchedNode.start, end |-> matchedNode.end],
         closed |-> matchedNode.closed]

\* extractTags(text, tag, html)
extractTags(text, tag, html) ==
    LET rootNodes == html.roots
        topLevel == SelectSeq(rootNodes, LAMBDA node : node.tag = tag)
        matchedNodes ==
            IF tag = "style" /\ topLevel = <<>> /\ rootNodes # <<>>
            THEN SelectSeq(walk(rootNodes[1]), LAMBDA child : child.tag = "style")
            ELSE topLevel
    IN  [i \in 1..Len(matchedNodes) |-> transformToTagInfo(matchedNodes[i], text)]

\* extractStyleTags(source, html)
extractStyleTags(source, html) == extractTags(source, "style", html)

\* ------------------------------------ specification of the extraction
MaxContent == 1
ElementCounts == {0, 1, 2}
UnclosedCounts == {0, 1, 2}

SeqsOver(elements, counts) == UNION {[1..n -> elements] : n \in counts}

StyleAndScriptElements ==
    [tag : {"style", "script"}, content : 0..MaxContent, children : {<<>>}]

div(children) == [tag |-> "div", content |-> 0, children |-> children]

\* A div holds style and script elements, and divs that hold at most one.
InnerDivs == {div(children) : children \in SeqsOver(StyleAndScriptElements, {0, 1})}

RootElements ==
    StyleAndScriptElements
        \cup {div(children) :
                children \in SeqsOver(StyleAndScriptElements \cup InnerDivs, ElementCounts)}

\* The number of elements on the way from the last root to its last child,
\* to the last child of that, and so on.
RECURSIVE lastPath(_)
lastPath(elements) ==
    IF elements = <<>> THEN 0 ELSE 1 + lastPath(elements[Len(elements)].children)

Markups ==
    {[roots |-> roots, unclosed |-> unclosed] :
        roots \in SeqsOver(RootElements, ElementCounts), unclosed \in UnclosedCounts}

InitExtract ==
    /\ IdleCore
    /\ \E doc \in Markups :
          /\ doc.unclosed <= lastPath(doc.roots)
          /\ server = [markup |-> doc, extracted |-> NotExtracted]

\* The document is parsed, and its style and script tags extracted.
ExtractTags ==
    /\ ~extracted.done
    /\ LET text == textOfElements(markup.roots, markup.unclosed)
           html == parseHtml(markup)
       IN  server' = [server EXCEPT !.extracted =
                         [done |-> TRUE,
                          styles |-> extractStyleTags(text, html),
                          scripts |-> extractTags(text, "script", html)]]
    /\ UNCHANGED coreVars

NextExtract == ExtractTags

SpecExtract == InitExtract /\ [][NextExtract]_vars

\* ---------------------------------------------- claims on the extraction
markupText == textOfElements(markup.roots, markup.unclosed)

\* The elements of a tag anywhere in the document, each with the offset
\* where it starts.
elementStarts(tag) ==
    {node.start : node \in {n \in UNION {{walk(r)[i] : i \in 1..Len(walk(r))} :
                                           r \in {parseHtml(markup).roots[k] : k \in 1..Len(markup.roots)}} :
                            n.tag = tag}}

blockStarts(blocks) == {blocks[i].container.start : i \in 1..Len(blocks)}

\* C14 as stated: style extraction returns exactly one block for every style
\* element of the markup tree, at any depth and under any root.
C14_AsStated ==
    extracted.done =>
        /\ blockStarts(extracted.styles) = elementStarts("style")
        /\ Len(extracted.styles) = Cardinality(elementStarts("style"))

\* C15 as stated: script extraction finds every script element of the markup
\* tree, those nested inside other elements included.
C15_AsStated ==
    extracted.done => elementStarts("script") \subseteq blockStarts(extracted.scripts)

\* C16: the content span of every extracted block runs from the end of the
\* start tag to the start of the end tag, or to the end of the node when the
\* end tag is missing; the content is the text over that span; and
\* container.start <= start <= end <= container.end, the container being the
\* whole element with its tags.
spanOfElement(block, tag) ==
    /\ markupText[block.container.start + 1] = startTag(tag)
    /\ block.start = block.container.start + 1
    /\ block.end = IF block.closed THEN block.container.end - 1 ELSE block.container.end
    /\ block.closed = (markupText[block.container.end] = endTag(tag))
    /\ block.content = SubSeq(markupText, block.start + 1, block.end)
    /\ \A i \in 1..Len(block.content) : block.content[i] = "c"
    /\ block.container.start <= block.start
    /\ block.start <= block.end
    /\ block.end <= block.container.end

CannotFindName == "Cannot find name"
CannotRedeclare == "Cannot redeclare block-scoped variable"

\* The file made for the script tag at an index: an isolated module unless
\* the tag carries is:inline.
scriptTagSnapshots(tags) ==
    [index \in 1..Len(tags) |->
        [isModule |-> ~tags[index].inline,
         declares |-> tags[index].declares,
         reads |-> tags[index].reads]]

\* The names in scope in a file of the type checker's program: those of the
\* file, and for a file that is no module those of every such file.
namesInScope(files, index) ==
    IF files[index].isModule THEN files[index].declares
    ELSE UNION {files[k].declares : k \in {k \in 1..Len(files) : ~files[k].isModule}}

\* lang.getSemanticDiagnostics(scriptFilePath)
getSemanticDiagnostics(files, index) ==
    {[file |-> index, code |-> CannotFindName, name |-> name] :
        name \in files[index].reads \ namesInScope(files, index)}
      \cup
    {[file |-> index, code |-> CannotRedeclare, name |-> name] :
        name \in {n \in files[index].declares :
                    /\ ~files[index].isModule
                    /\ \E k \in 1..Len(files) :
                          k # index /\ ~files[k].isModule /\ n \in files[k].declares}}

\* document.scriptTags.findIndex((value) => value.container.start == start)
findIndex(tags, start) ==
    LET found == {k \in 1..Len(tags) : tags[k].start = start}
    IN  IF found = {} THEN 0 ELSE CHOOSE k \in found : \A other \in found : k <= other

\* getDiagnostics with every script tag read from the file of the first.
getDiagnostics_FirstFile(tags) ==
    LET files == scriptTagSnapshots(tags)
    IN  UNION {getSemanticDiagnostics(files, 1) : i \in 1..Len(tags)}

\* DiagnosticsProviderImpl.getDiagnostics(document): the diagnostics of the
\* script tags.
getDiagnostics(tags) ==
    LET files == scriptTagSnapshots(tags)
    IN  UNION {getSemanticDiagnostics(files, findIndex(tags, tags[i].start)) : i \in 1..Len(tags)}

\* ------------------------------------ specification of the diagnostics
Names == {"hello", "path"}
MaxScriptTags == 2

ScriptContents == [inline : BOOLEAN, declares : SUBSET Names, reads : SUBSET Names]

\* The script tags of a document, one after the other.
ScriptTagLists ==
    UNION {{[i \in 1..n |-> [inline |-> contents[i].inline,
                             declares |-> contents[i].declares,
                             reads |-> contents[i].reads,
                             start |-> 2 * (i - 1)]] :
              contents \in [1..n -> ScriptContents]} : n \in 0..MaxScriptTags}

InitDiagnostics ==
    /\ IdleCore
    /\ \E tags \in ScriptTagLists : server = [scriptTags |-> tags, diagnostics |-> NoDiagnostics]

GetDiagnostics ==
    /\ ~diagnostics.done
    /\ server' = [server EXCEPT !.diagnostics =
                      [done |-> TRUE, items |-> getDiagnostics(scriptTags)]]
    /\ UNCHANGED coreVars

NextDiagnostics == GetDiagnostics

SpecDiagnostics == InitDiagnostics /\ [][NextDiagnostics]_vars

\* ----------------------------------------- claims on the diagnostics
reported(index, code, name) ==
    [file |-> index, code |-> code, name |-> name] \in diagnostics.items

PluginBehaviours == {"throws", "null", "value", "absent"}

FirstNonNullMethods == {"doHover", "resolveCompletion", "doTagComplete", "getSignatureHelp"}
CollectMethods ==
    {"getCompletions", "getDiagnostics", "getFoldingRanges", "getDefinitions",
     "getDocumentColors", "getColorPresentations"}
RequestMethods == FirstNonNullMethods \cup CollectMethods

\* tryExecutePlugin(plugin, fnName, args, failValue)
tryExecutePlugin(plugin, failValue) == IF plugin = "throws" THEN failValue ELSE plugin

\* execute(name, args, mode): the plugins that have the method are called in
\* order; FirstNonNull gives the first result that is not null, Collect the
\* list of all results.
RECURSIVE firstNonNull(_)
firstNonNull(called) ==
    IF called = <<>> THEN "null"
    ELSE LET res == tryExecutePlugin(Head(called), "null")
         IN  IF res # "null" THEN res ELSE firstNonNull(Tail(called))

execute(registered, name) ==
    LET called == SelectSeq(registered, LAMBDA plugin : plugin # "absent")
    IN  IF name \in FirstNonNullMethods
        THEN firstNonNull(called)
        ELSE [i \in 1..Len(called) |-> tryExecutePlugin(called[i], "[]")]

\* A request method of PluginHost: getDocument(textDocument.uri) throws for a
\* uri the document manager does not hold; then execute, and the method's
\* own handling of the result.
request(registered, open, name, uri) ==
    IF uri \notin open
    THEN [method |-> name, uri |-> uri, threw |-> TRUE,
          value |-> "Cannot call methods on an unopened document"]
    ELSE LET executed == execute(registered, name)
         IN  [method |-> name, uri |-> uri, threw |-> FALSE,
              value |-> IF name = "resolveCompletion" /\ executed = "null"
                        THEN "completionItem"
                        ELSE IF name \in {"getCompletions", "getFoldingRanges"}
                        THEN SelectSeq(executed, LAMBDA res : res # "null")
                        ELSE executed]

\* ------------------------------------ specification of the PluginHost
MaxPlugins == 2
Uris == {"file:///a.astro", "file:///b.astro"}

InitHost ==
    /\ IdleCore
    /\ server = [plugins |-> <<>>, openDocuments |-> {}, response |-> NoResponse]

\* registerPlugin(plugin)
RegisterPlugin ==
    /\ Len(plugins) < MaxPlugins
    /\ \E plugin \in PluginBehaviours :
          server' = [server EXCEPT !.plugins = Append(plugins, plugin)]
    /\ UNCHANGED coreVars

\* The editor opens or closes a document.
OpenOrCloseDocument ==
    /\ \E uri \in Uris :
          server' = [server EXCEPT !.openDocuments =
                        IF uri \in openDocuments THEN openDocuments \ {uri}
                        ELSE openDocuments \cup {uri}]
    /\ UNCHANGED coreVars

\* The server calls a request method for a uri.
Request ==
    /\ \E name \in RequestMethods, uri \in Uris :
          server' = [server EXCEPT !.response = request(plugins, openDocuments, name, uri)]
    /\ UNCHANGED coreVars

NextHost == RegisterPlugin \/ OpenOrCloseDocument \/ Request

SpecHost == InitHost /\ [][NextHost]_vars

\* ------------------------------------------- claims on the PluginHost
\* C18 as stated: every request method of PluginHost completes with a value
\* and never propagates an exception to its caller, whatever a registered
\* plugin throws and whether or not the requested document is open.
C18_AsStated == ~response.threw

\* ------------------------------------------------ ModuleResolutionCache
\* Module names and paths are sequences of units: a name, ".", "/" or an
\* ending. A cached value is a resolved module or undefined.
UndefinedModule == [defined |-> FALSE, resolvedFileName |-> <<>>]
ResolvedModule(resolvedFileName) == [defined |-> TRUE, resolvedFileName |-> resolvedFileName]

\* String.prototype.includes
includes(text, pattern) == indexOf(text, pattern, 0) >= 0

\* ensureRealAstroFilePath(filePath): x.astro.tsx names the file x.astro.
ensureRealAstroFilePath(filePath) ==
    IF Len(filePath) >= 4
         /\ SubSeq(filePath, Len(filePath) - 3, Len(filePath)) = <<".", "astro", ".", "tsx">>
    THEN SubSeq(filePath, 1, Len(filePath) - 2)
    ELSE filePath

\* getLastPartOfPath(path): what follows the last "/".
getLastPartOfPath(path) ==
    LET slashes == {i \in 1..Len(path) : path[i] = "/"}
        last == IF slashes = {} THEN 0 ELSE CHOOSE i \in slashes : \A j \in slashes : j <= i
    IN  SubSeq(path, last + 1, Len(path))

\* getLastPartOfPath(path).split('.').shift() || ''
fileNameWithoutEnding(path) ==
    LET name == getLastPartOfPath(path)
        dot == indexOf(name, <<".">>, 0)
    IN  IF dot < 0 THEN name ELSE SubSeq(name, 1, dot)

\* ModuleResolutionCache.getKey(moduleName, containingFile); the module
\* name is what key.split(':::').pop() gives back.
getKey(moduleName, containingFile) == <<containingFile, ensureRealAstroFilePath(moduleName)>>

\* ModuleResolutionCache.delete that removes every entry but the undefined.
ModuleResolutionCache_delete_AllResolved(cache, resolvedModuleName) ==
    [key \in {k \in DOMAIN cache : ~cache[k].defined} |-> cache[key]]

\* ModuleResolutionCache.delete(resolvedModuleName)
ModuleResolutionCache_delete(cache, resolvedModuleName) ==
    [key \in {k \in DOMAIN cache :
                ~(cache[k].defined /\ cache[k].resolvedFileName = resolvedModuleName)}
        |-> cache[key]]

\* deleteUnresolvedResolutionsFromCache that looks at the module name only.
deleteUnresolvedResolutionsFromCache_ByName(cache, path) ==
    [key \in {k \in DOMAIN cache : ~includes(k[2], fileNameWithoutEnding(path))}
        |-> cache[key]]

\* ModuleResolutionCache.deleteUnresolvedResolutionsFromCache(path)
deleteUnresolvedResolutionsFromCache(cache, path) ==
    [key \in {k \in DOMAIN cache :
                ~(~cache[k].defined /\ includes(k[2], fileNameWithoutEnding(path)))}
        |-> cache[key]]

\* ts.resolveModuleName: the files a relative module name can stand for, in
\* the order they are tried, and the first of them that exists; the virtual
\* file x.astro.tsx exists when x.astro does and resolves to it.
candidates(name) ==
    LET target == Tail(name)
    IN  IF includes(getLastPartOfPath(target), <<".">>) THEN <<ensureRealAstroFilePath(target)>>
        ELSE <<target \o <<".", "ts">>, target \o <<"/", "index", ".", "ts">>>>

resolveModuleName(name, existing) ==
    LET tried == SelectSeq(candidates(name), LAMBDA file : file \in existing)
    IN  IF tried = <<>> THEN UndefinedModule ELSE ResolvedModule(Head(tried))

\* resolveModuleNames([moduleName], containingFile): the cache after the
\* call.
resolveModuleNames_ResolvedOnly(cache, moduleName, containingFile, existing) ==
    LET key == getKey(moduleName, containingFile)
        resolvedModule == resolveModuleName(moduleName, existing)
    IN  IF key \in DOMAIN cache \/ ~resolvedModule.defined THEN cache
        ELSE [k \in DOMAIN cache \cup {key} |-> IF k = key THEN resolvedModule ELSE cache[k]]
resolveModuleNames(cache, moduleName, containingFile, existing) ==
    LET key == getKey(moduleName, containingFile)
    IN  IF key \in DOMAIN cache THEN cache
        ELSE [k \in DOMAIN cache \cup {key} |->
                IF k = key THEN resolveModuleName(moduleName, existing) ELSE cache[k]]

\* ------------------------------- specification of the module loader
Files ==
    {<<"/", "Foo", ".", "astro">>,
     <<"/", "Foo", "/", "index", ".", "ts">>,
     <<"/", "Bar", ".", "ts">>,
     <<"/", ".", "env">>}

ModuleNames ==
    {<<".", "/", "Foo", ".", "astro">>,
     <<".", "/", "Foo", ".", "astro", ".", "tsx">>,
     <<".", "/", "Foo">>,
     <<".", "/", "Bar">>}

ContainingFiles == {"/a.astro", "/b.ts"}

InitLoader ==
    /\ IdleCore
    /\ \E existing \in SUBSET Files :
          server = [moduleCache |-> EmptyCache, existingFiles |-> existing, lastCall |-> NoCall]

\* The type checker asks for a module of a file.
ResolveModuleNames ==
    /\ \E moduleName \in ModuleNames, containingFile \in ContainingFiles :
          server' = [moduleCache |-> resolveModuleNames(moduleCache, moduleName, containingFile,
                                                        existingFiles),
                     existingFiles |-> existingFiles,
                     lastCall |-> [op |-> "resolveModuleNames", path |-> <<>>,
                                   moduleName |-> moduleName, containingFile |-> containingFile,
                                   before |-> moduleCache]]
    /\ UNCHANGED coreVars

\* A file was deleted: deleteFromModuleCache(path).
DeleteFromModuleCache ==
    /\ \E path \in existingFiles :
          server' = [moduleCache |-> ModuleResolutionCache_delete(moduleCache, path),
                     existingFiles |-> existingFiles \ {path},
                     lastCall |-> [op |-> "deleteFromModuleCache", path |-> path,
                                   moduleName |-> <<>>, containingFile |-> "none",
                                   before |-> moduleCache]]
    /\ UNCHANGED coreVars

\* A file was created: deleteUnresolvedResolutionsFromCache(path).
DeleteUnresolvedResolutionsFromCache ==
    /\ \E path \in Files \ existingFiles :
          server' = [moduleCache |-> deleteUnresolvedResolutionsFromCache(moduleCache, path),
                     existingFiles |-> existingFiles \cup {path},
                     lastCall |-> [op |-> "deleteUnresolvedResolutionsFromCache", path |-> path,
                                   moduleName |-> <<>>, containingFile |-> "none",
                                   before |-> moduleCache]]
    /\ UNCHANGED coreVars

NextLoader ==
    ResolveModuleNames \/ DeleteFromModuleCache \/ DeleteUnresolvedResolutionsFromCache

SpecLoader == InitLoader /\ [][NextLoader]_vars

\* ------------------------------------- claims on the module loader
resolvesTo(value, path) == value.defined /\ value.resolvedFileName = path

\* The entries of the cache before the last call that the call had to keep
\* are there, unchanged, and it added none.
keptBut(removable(_)) ==
    /\ DOMAIN moduleCache \subseteq DOMAIN lastCall.before
    /\ \A key \in DOMAIN lastCall.before :
          ~removable(key) => (key \in DOMAIN moduleCache /\ moduleCache[key] = lastCall.before[key])

\* C19: after deleteFromModuleCache(p) the cache holds no entry whose
\* resolved file name is p, and every entry that is unresolved or resolves
\* to another file is left as it was; no entry resolves to a file that was
\* deleted, so such a module is resolved again when asked for.
C19_DeleteFromModuleCache ==
    /\ lastCall.op = "deleteFromModuleCache" =>
          /\ \A key \in DOMAIN moduleCache : ~resolvesTo(moduleCache[key], lastCall.path)
          /\ keptBut(LAMBDA key : resolvesTo(lastCall.before[key], lastCall.path))
    /\ \A key \in DOMAIN moduleCache :
          moduleCache[key].defined => moduleCache[key].resolvedFileName \in existingFiles

\* /Foo.astro is deleted while ./Foo.astro is cached as resolved to it for
\* two files, ./Bar as resolved to /Bar.ts and ./Foo as undefined: the
\* first two entries go, the others stay.
C19_Witness ==
    /\ lastCall.op = "deleteFromModuleCache"
    /\ lastCall.path = <<"/", "Foo", ".", "astro">>
    /\ Cardinality(DOMAIN lastCall.before) = 4
    /\ DOMAIN moduleCache =
          {<<"/a.astro", <<".", "/", "Bar">>>>, <<"/a.astro", <<".", "/", "Foo">>>>}
    /\ moduleCache[<<"/a.astro", <<".", "/", "Bar">>>>] = ResolvedModule(<<"/", "Bar", ".", "ts">>)
    /\ moduleCache[<<"/a.astro", <<".", "/", "Foo">>>>] = UndefinedModule

\* The part of the last segment of a path before its first ".".
baseName(path) ==
    LET slashes == {i \in 1..Len(path) : path[i] = "/"}
        segment == SubSeq(path, (IF slashes = {} THEN 0
                                 ELSE CHOOSE i \in slashes : \A j \in slashes : j <= i) + 1,
                          Len(path))
        dots == {i \in 1..Len(segment) : segment[i] = "."}
    IN  IF dots = {} THEN segment
        ELSE SubSeq(segment, 1, (CHOOSE i \in dots : \A j \in dots : i <= j) - 1)

contains(name, part) ==
    \E i \in 0..(Len(name) - Len(part)) : SubSeq(name, i + 1, i + Len(part)) = part

DiagnosticSeverity == [Error |-> 1, Warning |-> 2, Information |-> 3, Hint |-> 4]

\* A diagnostic of kit is modelled by its optional severity: <<severity>>,
\* or NoSeverity when it has none.
NoSeverity == <<>>
NoLevel == "undefined"

filter(array, keep(_)) == SelectSeq(array, keep)

\* The diagnostics of a file that the logErrors level lets through.
fileDiagnosticsToPrint(fileDiagnostics, level) ==
    LET toPrint(diag) ==
            LET severity == IF diag = NoSeverity THEN DiagnosticSeverity.Error ELSE diag[1]
            IN  CASE level = "error" -> severity <= DiagnosticSeverity.Error
                  [] level = "warning" -> severity <= DiagnosticSeverity.Warning
                  [] OTHER -> severity <= DiagnosticSeverity.Hint
    IN  filter(fileDiagnostics, toPrint)

\* linter.printErrors: the text is empty exactly when nothing is printed; it
\* is modelled by the diagnostics it shows.
printErrors(file, diagnosticsToPrint) == diagnosticsToPrint

emptyCheckResult ==
    [status |-> "undefined", fileChecked |-> 0, errors |-> 0, warnings |-> 0, hints |-> 0,
     fileResult |-> <<>>]

withSeverity(fileDiagnostics, wanted) ==
    LET is(diag) == diag = <<wanted>>
    IN  Len(filter(fileDiagnostics, is))

\* The body of lint's loop after the poll: the file's diagnostics are added
\* to the result.
checkFile_OnlyPrinted(res, file, fileDiagnostics, level) ==
    LET errorText == printErrors(file, fileDiagnosticsToPrint(fileDiagnostics, level))
        shown == fileDiagnosticsToPrint(fileDiagnostics, level)
    IN  IF Len(fileDiagnostics) > 0
        THEN [res EXCEPT
                !.fileResult = Append(@, [errors |-> shown, fileUrl |-> file,
                                          text |-> errorText]),
                !.errors = @ + withSeverity(shown, DiagnosticSeverity.Error),
                !.warnings = @ + withSeverity(shown, DiagnosticSeverity.Warning),
                !.hints = @ + withSeverity(shown, DiagnosticSeverity.Hint),
                !.fileChecked = @ + 1]
        ELSE [res EXCEPT !.fileChecked = @ + 1]
checkFile(res, file, fileDiagnostics, level) ==
    LET errorText == printErrors(file, fileDiagnosticsToPrint(fileDiagnostics, level))
    IN  IF Len(fileDiagnostics) > 0
        THEN [res EXCEPT
                !.fileResult = Append(@, [errors |-> fileDiagnostics, fileUrl |-> file,
                                          text |-> errorText]),
                !.errors = @ + withSeverity(fileDiagnostics, DiagnosticSeverity.Error),
                !.warnings = @ + withSeverity(fileDiagnostics, DiagnosticSeverity.Warning),
                !.hints = @ + withSeverity(fileDiagnostics, DiagnosticSeverity.Hint),
                !.fileChecked = @ + 1]
        ELSE [res EXCEPT !.fileChecked = @ + 1]

\* What console.info is given for a file: nothing unless logErrors is set,
\* the file has diagnostics and the text is not empty.
logged(file, fileDiagnostics, level) ==
    LET errorText == printErrors(file, fileDiagnosticsToPrint(fileDiagnostics, level))
    IN  IF Len(fileDiagnostics) > 0 /\ level # NoLevel /\ errorText # <<>>
        THEN <<errorText>> ELSE <<>>

\* One turn of lint's loop over the file at index file, cancel() having
\* returned cancelled.
lintFile_CheckThenPoll(srv, file, cancelled) ==
    LET polled == [srv EXCEPT !.cancelCalls = Append(@, cancelled)]
        done == [polled EXCEPT
                    !.checked = Append(@, file),
                    !.printed = @ \o logged(file, srv.fileNames[file], srv.logErrors),
                    !.checkResult = checkFile(@, file, srv.fileNames[file], srv.logErrors)]
    IN  IF cancelled THEN [done EXCEPT !.checkResult.status = "cancelled"] ELSE done
lintFile(srv, file, cancelled) ==
    LET polled == [srv EXCEPT !.cancelCalls = Append(@, cancelled)]
    IN  IF cancelled
        THEN [polled EXCEPT !.checkResult.status = "cancelled"]
        ELSE [polled EXCEPT
                !.checked = Append(@, file),
                !.printed = @ \o logged(file, srv.fileNames[file], srv.logErrors),
                !.checkResult = checkFile(@, file, srv.fileNames[file], srv.logErrors)]

\* ------------------------------------- specification of AstroCheck.lint
Severities == {NoSeverity, <<DiagnosticSeverity.Error>>, <<DiagnosticSeverity.Warning>>,
               <<DiagnosticSeverity.Information>>, <<DiagnosticSeverity.Hint>>}
DiagnosticCounts == 0..2
FileCounts == 0..2
Levels == {NoLevel, "error", "warning", "hint"}
FileDiagnostics == SeqsOver(Severities, DiagnosticCounts)

\* lint is called: the result is fresh and no file was looked at.
InitCheck ==
    /\ IdleCore
    /\ \E names \in SeqsOver(FileDiagnostics, FileCounts), level \in Levels :
          server = [fileNames |-> names, logErrors |-> level, checkResult |-> emptyCheckResult,
                    cancelCalls |-> <<>>, checked |-> <<>>, printed |-> <<>>]

\* The loop reaches the next file: cancel() is polled and, unless it
\* returned true, the file is checked.
LintFile ==
    /\ checkResult.status = "undefined"
    /\ Len(cancelCalls) < Len(fileNames)
    /\ \E cancelled \in BOOLEAN : server' = lintFile(server, Len(cancelCalls) + 1, cancelled)
    /\ UNCHANGED coreVars

\* The loop is over all files: lint returns.
LintCompleted ==
    /\ checkResult.status = "undefined"
    /\ Len(cancelCalls) = Len(fileNames)
    /\ server' = [server EXCEPT !.checkResult.status = "completed"]
    /\ UNCHANGED coreVars

NextCheck == LintFile \/ LintCompleted

SpecCheck == InitCheck /\ [][NextCheck]_vars

\* ---------------------------------------------- claims on AstroCheck.lint
RECURSIVE sum(_)
sum(numbers) == IF numbers = <<>> THEN 0 ELSE Head(numbers) + sum(Tail(numbers))

anyTrue(calls) == \E i \in 1..Len(calls) : calls[i]

\* C21: cancel() is polled before each file is checked; once it returned
\* true no further file is checked and the result is 'cancelled' with
\* fileChecked the number of files checked before; when it never returns
\* true the result is 'completed' and fileChecked is the number of files.
C21_CancelPolledBeforeEachFile ==
    /\ checked = [i \in 1..Len(checked) |-> i]
    /\ \A i \in 1..Len(checked) : i <= Len(cancelCalls) /\ ~cancelCalls[i]
    /\ anyTrue(cancelCalls) =>
          /\ checkResult.status = "cancelled"
          /\ cancelCalls[Len(cancelCalls)]
          /\ Len(checked) = Len(cancelCalls) - 1
    /\ checkResult.status = "cancelled" =>
          anyTrue(cancelCalls) /\ checkResult.fileChecked = Len(checked)
    /\ checkResult.status = "completed" =>
          /\ ~anyTrue(cancelCalls)
          /\ Len(checked) = Len(fileNames)
          /\ checkResult.fileChecked = Len(fileNames)

C21_Witness ==
    /\ checkResult.status = "cancelled"
    /\ checkResult.fileChecked = 1
    /\ Len(fileNames) = 2

\* The files looked at that have at least one diagnostic, in order.
reportedFiles ==
    LET has(file) == Len(fileNames[file]) > 0
    IN  filter(checked, has)

countOf(severity) ==
    sum([i \in 1..Len(checked) |-> withSeverity(fileNames[checked[i]], severity)])

\* C22: whatever the logErrors level, fileResult holds, for each checked
\* file with at least one diagnostic, all diagnostics of the file, and the
\* errors, warnings and hints counters count all diagnostics of their
\* severity; the level only filters the printed text.
C22_LevelOnlyFiltersText ==
    /\ Len(checkResult.fileResult) = Len(reportedFiles)
    /\ \A i \in 1..Len(reportedFiles) :
          LET entry == checkResult.fileResult[i]
              file == reportedFiles[i]
          IN  /\ entry.fileUrl = file
              /\ entry.errors = fileNames[file]
              /\ entry.text = printErrors(file, fileDiagnosticsToPrint(fileNames[file], logErrors))
    /\ checkResult.errors = countOf(DiagnosticSeverity.Error)
    /\ checkResult.warnings = countOf(DiagnosticSeverity.Warning)
    /\ checkResult.hints = countOf(DiagnosticSeverity.Hint)

C22_Witness ==
    /\ checkResult.status = "completed"
    /\ logErrors = "error"
    /\ checkResult.hints = 1
    /\ checkResult.errors = 1
    /\ \E i \in 1..Len(checkResult.fileResult) :
          /\ Len(checkResult.fileResult[i].errors) = 2
          /\ Len(checkResult.fileResult[i].text) = 1

\* C28: when lint completes, errors + warnings + hints is the number of
\* diagnostics stored in the fileResult entries.
C28_AsStated ==
    checkResult.status = "completed" =>
        checkResult.errors + checkResult.warnings + checkResult.hints
            = sum([i \in 1..Len(checkResult.fileResult) |-> Len(checkResult.fileResult[i].errors)])

\* ------------------------------------------------------ MarkdownVirtualCode
\* updateSnapshot(snapshot) on the code `this`: the root mapping is built
\* first, from this.snapshot as it then is; the frontmatter is read from the
\* snapshot installed after that. The embedded code is modelled by the
\* frontmatter text it is generated from and the source offsets of its last
\* mapping.
MarkdownVirtualCode_updateSnapshot(this, snapshot) ==
    LET closing == indexOf(snapshot, <<"-", "-", "-">>, 3)
    IN  [snapshot |-> snapshot,
         mappings |-> <<[sourceOffsets |-> <<0>>, generatedOffsets |-> <<0>>,
                         lengths |-> <<Len(this.snapshot)>>]>>,
         embeddedCodes |-> <<[id |-> "frontmatter",
                              frontmatter |-> substring(snapshot, 4, closing),
                              sourceOffsets |-> <<0, closing + 3>>]>>]

\* The constructor: its parameter property sets this.snapshot before
\* updateSnapshot runs.
newMarkdownVirtualCode(snapshot) ==
    MarkdownVirtualCode_updateSnapshot(
        [snapshot |-> snapshot, mappings |-> <<>>, embeddedCodes |-> <<>>], snapshot)

\* --------------------------- specification of the MarkdownVirtualCode
MarkdownTexts == TextsOver({"-", "a"}, MaxText)

\* createVirtualCode makes the code of a markdown file.
InitMarkdown ==
    /\ IdleCore
    /\ \E snapshot \in MarkdownTexts :
          server = [markdownCode |-> newMarkdownVirtualCode(snapshot), snapshots |-> 1]

\* The file is edited: updateVirtualCode hands the new snapshot over.
UpdateVirtualCode ==
    /\ snapshots <= MaxUpdates
    /\ \E newSnapshot \in MarkdownTexts :
          server' = [markdownCode |-> MarkdownVirtualCode_updateSnapshot(markdownCode, newSnapshot),
                     snapshots |-> snapshots + 1]
    /\ UNCHANGED coreVars

NextMarkdown == UpdateVirtualCode

SpecMarkdown == InitMarkdown /\ [][NextMarkdown]_vars

\* ------------------------------------ claims on the MarkdownVirtualCode
frontmatterOf(snapshot) ==
    [id |-> "frontmatter",
     frontmatter |-> substring(snapshot, 4, indexOf(snapshot, <<"-", "-", "-">>, 3)),
     sourceOffsets |-> <<0, indexOf(snapshot, <<"-", "-", "-">>, 3) + 3>>]

\* C23: after every updateSnapshot(s) the root mapping covers exactly
\* [0, length of s], s being the snapshot just installed, and the embedded
\* frontmatter code is derived from s.
C23_AsStated ==
    /\ Len(markdownCode.mappings) = 1
    /\ markdownCode.mappings[1].sourceOffsets = <<0>>
    /\ markdownCode.mappings[1].lengths = <<Len(markdownCode.snapshot)>>
    /\ markdownCode.embeddedCodes = <<frontmatterOf(markdownCode.snapshot)>>

\* The parts of C23 the code keeps: the snapshot installed and the embedded
\* code are those of the last updateSnapshot.
embeddedCodeFollowsSnapshot ==
    markdownCode.embeddedCodes = <<frontmatterOf(markdownCode.snapshot)>>

\* ------------------------------------------- provideSemanticDiagnostics
\* A value that may be null is <<value>>, or Null.
Null == <<>>

\* AstroFile.hasCompilationErrors
hasCompilationErrors(file) ==
    LET isError(diag) == diag.severity = 1
    IN  Len(filter(file.compilerDiagnostics, isError)) > 0

\* The enhancement step, known here by its call only: its result is modelled
\* by the arguments it was given.
enhancedProvideSemanticDiagnostics(tsResult, tsxLineCount) ==
    [enhanced |-> tsResult, tsxLineCount |-> tsxLineCount]

\* provideSemanticDiagnostics of the plugin for a document whose root is
\* file, typeScriptPlugin.provideSemanticDiagnostics having the result tsResult for it:
\* what is returned, and how often the TypeScript service was queried.
provideSemanticDiagnostics_AnyDiagnostic(file, tsResult) ==
    LET tsxLineCount == IF file.isAstroFile THEN <<file.tsxLineCount>> ELSE <<>>
    IN  IF file.isAstroFile /\ Len(file.compilerDiagnostics) > 0
        THEN [called |-> TRUE, queries |-> 0, value |-> Null]
        ELSE IF tsResult = Null
        THEN [called |-> TRUE, queries |-> 1, value |-> Null]
        ELSE [called |-> TRUE, queries |-> 1,
              value |-> <<enhancedProvideSemanticDiagnostics(tsResult[1], tsxLineCount)>>]
provideSemanticDiagnostics(file, tsResult) ==
    LET tsxLineCount == IF file.isAstroFile THEN <<file.tsxLineCount>> ELSE <<>>
    IN  IF file.isAstroFile /\ hasCompilationErrors(file)
        THEN [called |-> TRUE, queries |-> 0, value |-> Null]
        ELSE IF tsResult = Null
        THEN [called |-> TRUE, queries |-> 1, value |-> Null]
        ELSE [called |-> TRUE, queries |-> 1,
              value |-> <<enhancedProvideSemanticDiagnostics(tsResult[1], tsxLineCount)>>]

\* ------------------- specification of provideSemanticDiagnostics
CompilerSeverities == 1..3
CompilerDiagnosticCounts == 0..2
TsxLineCounts == 1..2
CompilerDiagnostics ==
    SeqsOver([severity : CompilerSeverities], CompilerDiagnosticCounts)
RootFiles ==
    [isAstroFile : {TRUE}, compilerDiagnostics : CompilerDiagnostics, tsxLineCount : TsxLineCounts]
        \cup [isAstroFile : {FALSE}, compilerDiagnostics : {<<>>}, tsxLineCount : {1}]
TsDiagnostics == {Null, << <<>> >>, << <<"ts">> >>, << <<"ts", "ts">> >>}
NotProvided == [called |-> FALSE, queries |-> 0, value |-> Null]

InitSemanticDiagnostics ==
    /\ IdleCore
    /\ \E file \in RootFiles, tsResult \in TsDiagnostics :
          server = [rootFile |-> file, tsDiagnostics |-> tsResult, provided |-> NotProvided]

\* The client asks for the semantic diagnostics of the document.
ProvideSemanticDiagnostics ==
    /\ server' = [server EXCEPT !.provided = provideSemanticDiagnostics(rootFile, tsDiagnostics)]
    /\ UNCHANGED coreVars

NextSemanticDiagnostics == ProvideSemanticDiagnostics

SpecSemanticDiagnostics == InitSemanticDiagnostics /\ [][NextSemanticDiagnostics]_vars

\* --------------------------------- claims on provideSemanticDiagnostics
severityOneCount(file) ==
    Cardinality({i \in 1..Len(file.compilerDiagnostics) : file.compilerDiagnostics[i].severity = 1})

\* C24: for an Astro file with at least one compiler diagnostic of severity 1
\* provideSemanticDiagnostics returns null and does not query the TypeScript
\* service; for one with none the service is queried and what it has is
\* returned through the enhancement step (null when it has nothing).
C24_CompilerErrorsSilenceTypeScript ==
    (provided.called /\ rootFile.isAstroFile) =>
        /\ severityOneCount(rootFile) >= 1 => (provided.value = Null /\ provided.queries = 0)
        /\ severityOneCount(rootFile) = 0 =>
              /\ provided.queries = 1
              /\ tsDiagnostics # Null =>
                    provided.value = <<enhancedProvideSemanticDiagnostics(
                                           tsDiagnostics[1], <<rootFile.tsxLineCount>>)>>
              /\ tsDiagnostics = Null => provided.value = Null

C24_Witness ==
    /\ provided.called
    /\ rootFile.isAstroFile
    /\ Len(rootFile.compilerDiagnostics) = 2
    /\ severityOneCount(rootFile) = 0
    /\ provided.value # Null

\* ------------------------- specification of the resolver behind the cache
\* Whether resolveModuleNames([moduleName], containingFile) runs
\* resolveModuleName: it does unless the cache has the key.
resolverRuns(cache, moduleName, containingFile) ==
    getKey(moduleName, containingFile) \notin DOMAIN cache

\* What resolveModuleNames([moduleName], containingFile) returns for the
\* module.
resolvedModuleOf(cache, moduleName, containingFile, existing) ==
    IF resolverRuns(cache, moduleName, containingFile)
    THEN resolveModuleName(moduleName, existing)
    ELSE cache[getKey(moduleName, containingFile)]

WatchedFiles == {<<"/", "Foo", ".", "astro">>, <<"/", "Bar", ".", "ts">>}
WatchedModuleNames ==
    {<<".", "/", "Foo", ".", "astro">>,
     <<".", "/", "Foo", ".", "astro", ".", "tsx">>,
     <<".", "/", "Bar">>}

NoneAsked == [pair \in {} |-> 0]
NoneReturned == [pair \in {} |-> {}]

InitResolver ==
    /\ IdleCore
    /\ \E existing \in SUBSET WatchedFiles :
          server = [moduleCache |-> EmptyCache, existingFiles |-> existing,
                    resolverCalls |-> NoneAsked, returned |-> NoneReturned]

\* The type checker asks for a module of a file.
ResolveWatched ==
    /\ \E moduleName \in WatchedModuleNames, containingFile \in ContainingFiles :
          LET pair == <<moduleName, containingFile>>
              runs == IF resolverRuns(moduleCache, moduleName, containingFile) THEN 1 ELSE 0
              value == resolvedModuleOf(moduleCache, moduleName, containingFile, existingFiles)
              asked == DOMAIN resolverCalls \cup {pair}
          IN  /\ pair \in DOMAIN resolverCalls => resolverCalls[pair] <= 1
              /\ server' =
                    [moduleCache |-> resolveModuleNames(moduleCache, moduleName, containingFile,
                                                        existingFiles),
                     existingFiles |-> existingFiles,
                     resolverCalls |->
                         [q \in asked |->
                             IF q = pair
                             THEN runs + (IF q \in DOMAIN resolverCalls THEN resolverCalls[q] ELSE 0)
                             ELSE resolverCalls[q]],
                     returned |->
                         [q \in asked |->
                             IF q = pair
                             THEN {value} \cup (IF q \in DOMAIN returned THEN returned[q] ELSE {})
                             ELSE returned[q]]]
    /\ UNCHANGED coreVars

\* A file appears or disappears and the loader is not told.
FileSystemChanges ==
    /\ \E path \in WatchedFiles :
          server' = [server EXCEPT !.existingFiles =
                        IF path \in existingFiles THEN existingFiles \ {path}
                        ELSE existingFiles \cup {path}]
    /\ UNCHANGED coreVars

\* The loader is told of a deleted or of a new file: an invalidation.
Invalidate ==
    /\ \E path \in WatchedFiles, deleted \in BOOLEAN :
          server' = [moduleCache |->
                         IF deleted THEN ModuleResolutionCache_delete(moduleCache, path)
                         ELSE deleteUnresolvedResolutionsFromCache(moduleCache, path),
                     existingFiles |-> existingFiles,
                     resolverCalls |-> NoneAsked,
                     returned |-> NoneReturned]
    /\ UNCHANGED coreVars

NextResolver == ResolveWatched \/ FileSystemChanges \/ Invalidate

SpecResolver == InitResolver /\ [][NextResolver]_vars

\* --------------------------------- claims on the resolver behind the cache
\* C25: between two invalidations the resolver runs at most once for each
\* pair (moduleName, containingFile), also when the module does not resolve,
\* and every call for the pair returns the same result.
C25_ResolvedOncePerPair ==
    \A pair \in DOMAIN resolverCalls :
        /\ resolverCalls[pair] <= 1
        /\ Cardinality(returned[pair]) = 1

\* An unresolved module was asked for, the file it names has appeared since,
\* and a later call was still answered from the cache.
C25_Witness ==
    \E pair \in DOMAIN resolverCalls :
        /\ resolverCalls[pair] = 1
        /\ returned[pair] = {UndefinedModule}
        /\ resolveModuleName(pair[1], existingFiles).defined
        /\ getKey(pair[1], pair[2]) \in DOMAIN moduleCache

\* ------------------------------------------- PluginHost.getCompletions
\* What getCompletions of a plugin does: it is absent, throws, returns null
\* or returns a CompletionList. The fail value [] of tryExecutePlugin is an
\* array: it has neither items nor isIncomplete.
NoCompletions(kind) == [kind |-> kind, items |-> <<>>, isIncomplete |-> FALSE]

tryExecuteGetCompletions(plugin, failValue) ==
    IF plugin.kind = "throws" THEN failValue ELSE plugin

\* execute('getCompletions', args, ExecuteMode.Collect)
executeCollect(registered) ==
    LET hasMethod(plugin) == plugin.kind # "absent"
        called == filter(registered, hasMethod)
    IN  [i \in 1..Len(called) |-> tryExecuteGetCompletions(called[i], NoCompletions("[]"))]

\* flatten of lodash over completions.map((completion) => completion.items):
\* an element that is an array gives its elements, any other element (the
\* undefined items of []) is kept as it is.
RECURSIVE flattenItems(_)
flattenItems(completions) ==
    IF completions = <<>> THEN <<>>
    ELSE (IF Head(completions).kind = "list" THEN Head(completions).items ELSE <<"undefined">>)
            \o flattenItems(Tail(completions))

\* completions.reduce((incomplete, completion) => incomplete ||
\* completion.isIncomplete, false), made a boolean by CompletionList.create.
RECURSIVE reduceIncomplete(_)
reduceIncomplete(completions) ==
    IF completions = <<>> THEN FALSE
    ELSE (Head(completions).kind = "list" /\ Head(completions).isIncomplete)
            \/ reduceIncomplete(Tail(completions))

\* PluginHost.getCompletions(textDocument, position, completionContext);
\* asked records the plugins that were registered at the call.
getCompletions(registered, open) ==
    IF ~open
    THEN [called |-> TRUE, asked |-> registered, threw |-> TRUE, items |-> <<>>,
          isIncomplete |-> FALSE]
    ELSE LET notNull(completion) == completion.kind # "null"
             completions == filter(executeCollect(registered), notNull)
         IN  [called |-> TRUE, asked |-> registered, threw |-> FALSE,
              items |-> flattenItems(completions),
              isIncomplete |-> reduceIncomplete(completions)]

\* ------------------------ specification of PluginHost.getCompletions
CompletionItems == {<<>>, <<"a">>, <<"b", "c">>}
CompletionPlugins ==
    {NoCompletions("absent"), NoCompletions("throws"), NoCompletions("null")}
        \cup [kind : {"list"}, items : CompletionItems, isIncomplete : BOOLEAN]
NoCompletionList ==
    [called |-> FALSE, asked |-> <<>>, threw |-> FALSE, items |-> <<>>, isIncomplete |-> FALSE]

InitCompletions ==
    /\ IdleCore
    /\ \E open \in BOOLEAN :
          server = [completionPlugins |-> <<>>, documentOpen |-> open,
                    completionList |-> NoCompletionList]

\* registerPlugin(plugin)
RegisterCompletionPlugin ==
    /\ Len(completionPlugins) < MaxPlugins
    /\ \E plugin \in CompletionPlugins :
          server' = [server EXCEPT !.completionPlugins = Append(completionPlugins, plugin)]
    /\ UNCHANGED coreVars

\* The server asks the host for the completions at a position.
GetCompletions ==
    /\ server' = [server EXCEPT !.completionList = getCompletions(completionPlugins, documentOpen)]
    /\ UNCHANGED coreVars

NextCompletions == RegisterCompletionPlugin \/ GetCompletions

SpecCompletions == InitCompletions /\ [][NextCompletions]_vars

\* ------------------------------ claims on PluginHost.getCompletions
RECURSIVE itemsOfLists(_)
itemsOfLists(registered) ==
    IF registered = <<>> THEN <<>>
    ELSE (IF Head(registered).kind = "list" THEN Head(registered).items ELSE <<>>)
            \o itemsOfLists(Tail(registered))

anyIncomplete(registered) ==
    \E i \in 1..Len(registered) : registered[i].kind = "list" /\ registered[i].isIncomplete

anyThrows(registered) == \E i \in 1..Len(registered) : registered[i].kind = "throws"

\* C26 as stated: the items getCompletions returns are the items of the
\* plugin results that are completion lists, concatenated in registration
\* order; a plugin that throws or returns null contributes no entry, and
\* isIncomplete is the disjunction of the flags of the contributing results.
C26_AsStated ==
    (completionList.called /\ ~completionList.threw) =>
        /\ completionList.items = itemsOfLists(completionList.asked)
        /\ completionList.isIncomplete = anyIncomplete(completionList.asked)

\* What the code keeps of C26: when no plugin throws the items are the
\* concatenation, and isIncomplete is the disjunction in every case.
completionsWithoutThrow ==
    (completionList.called /\ ~completionList.threw) =>
        /\ ~anyThrows(completionList.asked) =>
              completionList.items = itemsOfLists(completionList.asked)
        /\ completionList.isIncomplete = anyIncomplete(completionList.asked)

\* --------------------------------- the start of a script-tag diagnostic
\* A diagnostic object of the type checker: its start as it is now, whether
\* it has relatedInformation, and, to follow it, what the type checker gave
\* it and how often its start was translated.

\* fragment.offsetAt(scriptTagSnapshot.getOriginalPosition(
\* scriptTagSnapshot.positionAt(start))): the offset in the document of an
\* offset in the script.
toDocumentOffset(start, scriptStart) == scriptStart + start

\* The function given to map() over the diagnostics of a script-tag file; it
\* changes the object it is given.
mapScriptDiagnostic(diag, scriptStart) ==
    LET mapsStart == diag.start # 0 /\ ~diag.relatedInformation
    IN  [diag EXCEPT
            !.start = IF mapsStart THEN toDocumentOffset(@, scriptStart) ELSE @,
            !.translated = IF mapsStart THEN @ + 1 ELSE @,
            !.relatedInformation = TRUE]

\* ------------- specification of the mapping of script-tag diagnostics
ScriptOffsets == 0..2
ContentStarts == {8, 10}
MappingCalls == 0..3
DiagnosticCountsOfScript == 0..2
TypeCheckerDiagnostics ==
    {[start |-> offset, relatedInformation |-> related,
      given |-> [start |-> offset, relatedInformation |-> related], translated |-> 0] :
        offset \in ScriptOffsets, related \in BOOLEAN}

\* The type checker has computed the diagnostics of the script-tag file.
InitScriptDiagnostics ==
    /\ IdleCore
    /\ \E diags \in SeqsOver(TypeCheckerDiagnostics, DiagnosticCountsOfScript),
          scriptStart \in ContentStarts :
          server = [scriptDiagnostics |-> diags, contentStart |-> scriptStart, mapped |-> 0]

\* getDiagnostics(document) runs and the type checker hands back the same
\* objects.
MapScriptDiagnostics ==
    /\ mapped + 1 \in MappingCalls
    /\ server' = [server EXCEPT
                    !.scriptDiagnostics =
                        [i \in 1..Len(scriptDiagnostics) |->
                            mapScriptDiagnostic(scriptDiagnostics[i], contentStart)],
                    !.mapped = @ + 1]
    /\ UNCHANGED coreVars

NextScriptDiagnostics == MapScriptDiagnostics

SpecScriptDiagnostics == InitScriptDiagnostics /\ [][NextScriptDiagnostics]_vars

\* ----------------- claims on the mapping of script-tag diagnostics
\* C27 as stated: over any number of getDiagnostics calls that get the same
\* diagnostic objects, the start of every script-tag diagnostic is
\* translated to the document's coordinates exactly once, a diagnostic that
\* starts at offset 0 of the script included.
C27_AsStated ==
    mapped >= 1 =>
        \A i \in 1..Len(scriptDiagnostics) :
            LET diag == scriptDiagnostics[i]
            IN  diag.translated = 1 /\ diag.start = toDocumentOffset(diag.given.start, contentStart)

\* What the code keeps of C27: a diagnostic that the type checker gave a
\* start other than 0 and no relatedInformation is translated exactly once;
\* any other diagnostic is never translated.
translatedOnceUnlessAtZero ==
    mapped >= 1 =>
        \A i \in 1..Len(scriptDiagnostics) :
            LET diag == scriptDiagnostics[i]
            IN  IF diag.given.start # 0 /\ ~diag.given.relatedInformation
                THEN /\ diag.translated = 1
                     /\ diag.start = toDocumentOffset(diag.given.start, contentStart)
                ELSE diag.translated = 0 /\ diag.start = diag.given.start

\* ------------------------------------------------------------ positionAt
\* The while loop of positionAt over lineOffsets, from low and high on: the
\* position it returns. lineOffsets[mid] is undefined for mid = length, and
\* every comparison with it is false.
RECURSIVE searchLine_Exclusive(_, _, _, _)
searchLine_Exclusive(lineOffsets, offset, low, high) ==
    IF low >= high
    THEN [line |-> low - 1, character |-> offset - lineOffsets[Max(low, 1)]]
    ELSE LET mid == (low + high) \div 2
         IN  IF mid < Len(lineOffsets) /\ lineOffsets[mid + 1] = offset
             THEN [line |-> mid, character |-> 0]
             ELSE IF mid < Len(lineOffsets) /\ offset > lineOffsets[mid + 1]
             THEN searchLine_Exclusive(lineOffsets, offset, mid + 1, high)
             ELSE searchLine_Exclusive(lineOffsets, offset, low, mid - 1)
RECURSIVE searchLine(_, _, _, _)
searchLine(lineOffsets, offset, low, high) ==
    IF low > high
    THEN [line |-> low - 1, character |-> offset - lineOffsets[low]]
    ELSE LET mid == (low + high) \div 2
         IN  IF mid < Len(lineOffsets) /\ lineOffsets[mid + 1] = offset
             THEN [line |-> mid, character |-> 0]
             ELSE IF mid < Len(lineOffsets) /\ offset > lineOffsets[mid + 1]
             THEN searchLine(lineOffsets, offset, mid + 1, high)
             ELSE searchLine(lineOffsets, offset, low, mid - 1)

\* positionAt(offset, text)
positionAt(offset, text) ==
    LET lineOffsets == getLineOffsets(text)
        clamped == Max(0, Min(Len(text), offset))
    IN  IF Len(lineOffsets) = 0 THEN [line |-> 0, character |-> clamped]
        ELSE searchLine(lineOffsets, clamped, 0, Len(lineOffsets))

\* ------------------------------------ specification of the positions
PositionTextLengths == 0..4
PositionTexts == UNION {[1..n -> {"a", NL, CR}] : n \in PositionTextLengths}
NotLocated == [done |-> FALSE, position |-> [line |-> 0, character |-> 0], offset |-> 0]

InitPosition ==
    /\ IdleCore
    /\ \E text \in PositionTexts :
          \E offset \in (0 - 2)..(Len(text) + 2) :
              server = [positionText |-> text, askedOffset |-> offset, located |-> NotLocated]

\* The offset is turned into a position and the position into an offset.
Locate ==
    /\ ~located.done
    /\ LET position == positionAt(askedOffset, positionText)
       IN  server' = [server EXCEPT !.located =
                         [done |-> TRUE, position |-> position,
                          offset |-> offsetAt(position, positionText)]]
    /\ UNCHANGED coreVars

NextPosition == Locate

SpecPosition == InitPosition /\ [][NextPosition]_vars

\* ------------------------------------------------ claims on the positions
\* C29: for every text with \n, \r or \r\n line breaks, the empty text
\* included, and every offset o in 0..length, offsetAt(positionAt(o, text),
\* text) = o; an offset outside is clamped into the interval by positionAt;
\* the line offsets of getLineOffsets are strictly increasing.
C29_OffsetRoundTrip ==
    /\ located.done =>
          /\ askedOffset \in 0..Len(positionText) => located.offset = askedOffset
          /\ askedOffset < 0 =>
                (located.position = positionAt(0, positionText) /\ located.offset = 0)
          /\ askedOffset > Len(positionText) =>
                /\ located.position = positionAt(Len(positionText), positionText)
                /\ located.offset = Len(positionText)
    /\ LET lineOffsets == getLineOffsets(positionText)
       IN  \A i \in 1..(Len(lineOffsets) - 1) : lineOffsets[i] < lineOffsets[i + 1]

\* An offset between the two units of a \r\n line break.
C29_Witness ==
    /\ located.done
    /\ positionText = <<"a", CR, NL, "a">>
    /\ askedOffset = 2
    /\ located.position = [line |-> 0, character |-> 2]
    /\ located.offset = 2

\* ---------------------------------------------------------- importPackage
\* The directory of the extension, __dirname.
Dirname == "/extension"

\* dirname(require.resolve(packageName + '/package.json', { paths })): the
\* first of paths whose node_modules has the package gives its directory,
\* <<directory, packageName>>; with none the call throws, written <<>>.
requireResolve(packageName, paths, sites) ==
    LET has(path) == sites[<<path, packageName>>] # "none"
        found == filter(paths, has)
    IN  IF found = <<>> THEN <<>> ELSE <<Head(found), packageName>>

\* getPackagePath(packageName, fromPath): the package's directory, or <<>>
\* for undefined.
getPackagePath_Trusting(packageName, fromPath, trusted, sites) ==
    requireResolve(packageName, fromPath, sites)
getPackagePath(packageName, fromPath, trusted, sites) ==
    LET paths == IF trusted THEN fromPath ELSE <<>>
    IN  requireResolve(packageName, paths, sites)

\* importEditorIntegration(packageName, fromPath): the module loaded, or
\* undefined when the package is not found or its editor module does not
\* load.
importEditorIntegration(packageName, fromPath, trusted, sites) ==
    LET pkgPath == getPackagePath(packageName, <<fromPath>>, trusted, sites)
    IN  IF pkgPath # <<>> /\ sites[pkgPath] = "ok"
        THEN [threw |-> FALSE, loaded |-> pkgPath]
        ELSE [threw |-> FALSE, loaded |-> <<>>]

\* importPrettier(fromPath): require(undefined) throws, and so does the
\* require of a package that does not load.
importPrettier(fromPath, trusted, sites) ==
    LET prettierPkg == getPackagePath("prettier", <<fromPath, Dirname>>, trusted, sites)
    IN  IF prettierPkg # <<>> /\ sites[prettierPkg] = "ok"
        THEN [threw |-> FALSE, loaded |-> prettierPkg]
        ELSE [threw |-> TRUE, loaded |-> <<>>]

\* What a call of one of the module's functions for fromPath comes to.
outcomeOf(function, fromPath, trusted, sites) ==
    CASE function = "getPackagePath" ->
            [threw |-> FALSE,
             loaded |-> getPackagePath("@astrojs/svelte", <<fromPath>>, trusted, sites)]
      [] function = "importSvelteIntegration" ->
            importEditorIntegration("@astrojs/svelte", fromPath, trusted, sites)
      [] OTHER -> importPrettier(fromPath, trusted, sites)

\* --------------------------------- specification of importPackage
PackageNames == {"prettier", "@astrojs/svelte"}
FromPaths == {"/workspace", "/other"}
Installations ==
    {sites \in [(FromPaths \cup {Dirname}) \X PackageNames -> {"none", "ok", "broken"}] :
        \A package \in PackageNames : sites[<<"/other", package>>] = "none"}
ImportFunctions == {"getPackagePath", "importSvelteIntegration", "importPrettier"}
NotImported ==
    [function |-> "none", fromPath |-> "none", isTrusted |-> TRUE,
     outcome |-> [threw |-> FALSE, loaded |-> <<>>]]

\* The module is loaded: isTrusted is true.
InitImport ==
    /\ IdleCore
    /\ \E sites \in Installations :
          server = [isTrusted |-> TRUE, installed |-> sites, imported |-> NotImported]

\* setIsTrusted(_isTrusted)
SetIsTrusted ==
    /\ \E trusted \in BOOLEAN : server' = [server EXCEPT !.isTrusted = trusted]
    /\ UNCHANGED coreVars

\* A function of the module is called for a path of the workspace.
Import ==
    /\ \E function \in ImportFunctions, fromPath \in FromPaths :
          server' = [server EXCEPT !.imported =
                        [function |-> function, fromPath |-> fromPath, isTrusted |-> isTrusted,
                         outcome |-> outcomeOf(function, fromPath, isTrusted, installed)]]
    /\ UNCHANGED coreVars

NextImport == SetIsTrusted \/ Import

SpecImport == InitImport /\ [][NextImport]_vars

\* ------------------------------------------------ claims on importPackage
\* C30: while the workspace is untrusted the outcome of getPackagePath, and
\* of the integration and Prettier imports built on it, is the same for
\* every fromPath, and no package is taken from a directory of the workspace.
C30_UntrustedIgnoresFromPath ==
    (imported.function # "none" /\ ~imported.isTrusted) =>
        /\ \A fromPath \in FromPaths :
              imported.outcome = outcomeOf(imported.function, fromPath, FALSE, installed)
        /\ imported.outcome.loaded = <<>> \/ imported.outcome.loaded[1] \notin FromPaths

\* Untrusted, the package is installed in the workspace the call names and
\* is not taken from there.
C30_Witness ==
    /\ imported.function = "importSvelteIntegration"
    /\ ~imported.isTrusted
    /\ imported.fromPath = "/workspace"
    /\ installed[<<"/workspace", "@astrojs/svelte">>] = "ok"
    /\ imported.outcome.loaded = <<>>

====
